---- MODULE Spec2Model ----
(***************************************************************************)
(* Construction-site risk engine: polygon hazard lookups                   *)
(* (src/lib/geospatial-utils.ts), the zone catalog                         *)
(* (src/lib/earthquake-zones-info.ts) and the cost model of the            *)
(* ConstructionCost component.                                             *)
(*                                                                         *)
(* Coordinates are integers: one unit of longitude or latitude stands for  *)
(* one kilometre.  The query points lie on the line lat = 0 at odd         *)
(* longitudes and every ring has its vertices at even longitudes, with a   *)
(* vertex on each crossing of lat = 0, so that no query point lies on a    *)
(* boundary and the distance from an outside point to a ring is a whole    *)
(* number of kilometres, reached at a vertex (the segment distance of the  *)
(* primary path and the nearest-vertex distance of the fallback path then  *)
(* agree).                                                                 *)
(***************************************************************************)
EXTENDS Integers, Sequences, FiniteSets, TLC

VARIABLES collection, call, ret, page, cache, view, now

vars == <<collection, call, ret, page, cache, view, now>>

(* JavaScript null / undefined where an object is expected (a collection,  *)
(* an entry of features, a geometry, a result).  A member an object lacks  *)
(* is a field the record lacks.                                            *)
Null == [null |-> TRUE]

(* A null entry where an array is expected (a polygon of a MultiPolygon,   *)
(* a coordinate not yet found); the catalogue holds no empty array there.  *)
NullEntry == <<>>

(* No page is mounted: the page, the geocode cache, the address views and  *)
(* the clock are not part of a direct call of a library function.          *)
NoPage ==
    /\ page = Null
    /\ cache = Null
    /\ view = Null
    /\ now = 0

(* obj.member is truthy: obj has the member. *)
Has(obj, member) == member \in DOMAIN obj

(* IEEE +Infinity: larger than every finite distance of the model. *)
Infinity == 1000000

(* The 999 km sentinel returned for "no finite distance". *)
Sentinel == 999

Min(a, b) == IF a <= b THEN a ELSE b

Abs(a) == IF a < 0 THEN -a ELSE a

RECURSIVE SeqMin(_)
SeqMin(s) == IF Len(s) = 0 THEN Infinity ELSE Min(Head(s), SeqMin(Tail(s)))

(* Integer square root (exact on the distances the model's geometry has). *)
Isqrt(n) == CHOOSE r \in 0..n : r * r <= n /\ (r + 1) * (r + 1) > n

(***************************************************************************)
(* Geometry catalogue.  A position is <<lng, lat>>.                        *)
(***************************************************************************)
Rect(a, b) ==
    << <<a, -20>>, <<b, -20>>, <<b, 0>>, <<b, 20>>, <<a, 20>>, <<a, 0>>, <<a, -20>> >>

(* A ring with fewer than four positions: turf.polygon rejects it. *)
DegenerateRing == << <<8, 0>>, <<8, 2>>, <<8, 0>> >>

Polygon(ring) == [type |-> "Polygon", coordinates |-> <<ring>>]

MultiPolygon(polys) == [type |-> "MultiPolygon", coordinates |-> polys]

Feature(geometry, pga) == [geometry |-> geometry, properties |-> [PGA |-> pga]]

FeatureA == Feature(Polygon(Rect(2, 6)), "Zone 4")
FeatureB == Feature(Polygon(Rect(4, 12)), "Zone 2A")
FeatureMulti == Feature(MultiPolygon(<< <<DegenerateRing>>, <<Rect(12, 16)>> >>), "Zone 3")
FeatureMultiNull == Feature(MultiPolygon(<< NullEntry, <<Rect(12, 16)>> >>), "Zone 2B")
FeatureDegenerate == Feature(Polygon(DegenerateRing), "Zone 1")
FeatureLine == Feature([type |-> "LineString",
                        coordinates |-> << <<18, -2>>, <<18, 0>>, <<18, 2>> >>], "Zone 1")
FeatureNoGeometry == [properties |-> [PGA |-> "Zone 3"]]
FeatureNoCoordinates == Feature([type |-> "Polygon"], "Zone 3")
FeatureNoProperties == [geometry |-> Polygon(Rect(2, 6))]
FeatureEmptyPGA == Feature(Polygon(Rect(2, 6)), "")
FeatureFar == Feature(Polygon(Rect(40, 44)), "Zone 1")

(***************************************************************************)
(* The @turf/turf calls the code makes.                                    *)
(***************************************************************************)
(* turf.polygon(coordinates): throws unless every ring has four or more    *)
(* positions and is closed.                                                *)
TurfPolygonThrows(coords) ==
    \/ coords = NullEntry
    \/ \E k \in 1..Len(coords) :
          \/ Len(coords[k]) < 4
          \/ coords[k][1] # coords[k][Len(coords[k])]

(* Ray casting over one ring (the query points are never on a boundary). *)
Crosses(pt, s, e) ==
    /\ (s[2] > pt[2]) # (e[2] > pt[2])
    /\ IF e[2] > s[2]
          THEN (pt[1] - s[1]) * (e[2] - s[2]) < (e[1] - s[1]) * (pt[2] - s[2])
          ELSE (pt[1] - s[1]) * (e[2] - s[2]) > (e[1] - s[1]) * (pt[2] - s[2])

InRing(pt, ring) ==
    Cardinality({k \in 1..(Len(ring) - 1) : Crosses(pt, ring[k], ring[k + 1])}) % 2 = 1

(* turf.booleanPointInPolygon on one polygon: inside the outer ring and in *)
(* no hole.                                                                *)
BooleanPointInPolygon(pt, coords) ==
    /\ InRing(pt, coords[1])
    /\ \A k \in 2..Len(coords) : ~InRing(pt, coords[k])

Dist2(p, q) == (p[1] - q[1]) * (p[1] - q[1]) + (p[2] - q[2]) * (p[2] - q[2])

(* Squared distance from pt to the segment s-e (the segments of the model  *)
(* are parallel to an axis, so the division is exact).                     *)
SegDist2(pt, s, e) ==
    LET dot  == (pt[1] - s[1]) * (e[1] - s[1]) + (pt[2] - s[2]) * (e[2] - s[2])
        len2 == Dist2(s, e)
        crs  == (pt[1] - s[1]) * (e[2] - s[2]) - (pt[2] - s[2]) * (e[1] - s[1])
    IN  IF len2 = 0 \/ dot <= 0 THEN Dist2(pt, s)
        ELSE IF dot >= len2 THEN Dist2(pt, e)
        ELSE (crs * crs) \div len2

(* turf.pointToLineDistance(pt, line, {units: 'kilometers'}). *)
PointToLineDistance(pt, line) ==
    Isqrt(SeqMin([k \in 1..(Len(line) - 1) |-> SegDist2(pt, line[k], line[k + 1])]))

(* turf.polygonToLine followed by turf.pointToLineDistance accepts a       *)
(* single LineString only: a Polygon of one ring with two or more          *)
(* positions.  A Polygon with holes becomes a MultiLineString and a        *)
(* MultiPolygon a FeatureCollection, which pointToLineDistance rejects.    *)
BoundaryLineThrows(geometry) ==
    IF geometry.type = "Polygon"
       THEN \/ Len(geometry.coordinates) # 1
            \/ Len(geometry.coordinates[1]) < 2
    ELSE IF geometry.type = "MultiPolygon" THEN TRUE
    ELSE geometry.type # "LineString" \/ Len(geometry.coordinates) < 2

(***************************************************************************)
(* src/lib/geospatial-utils.ts                                             *)
(***************************************************************************)
PointPos(point) == <<point.lng, point.lat>>

(* MultiPolygonScan without the inner try: the first polygon that throws   *)
(* ends the scan in the outer catch.                                       *)
RECURSIVE MultiPolygonScanAbort(_, _, _)
MultiPolygonScanAbort(pt, polys, k) ==
    IF k > Len(polys) THEN FALSE
    ELSE IF TurfPolygonThrows(polys[k]) THEN FALSE
    ELSE IF BooleanPointInPolygon(pt, polys[k]) THEN TRUE
    ELSE MultiPolygonScanAbort(pt, polys, k + 1)

(* Lines 40-51: the loop over the polygons of a MultiPolygon. *)
RECURSIVE MultiPolygonScan(_, _, _)
MultiPolygonScan(pt, polys, k) ==
    IF k > Len(polys) THEN FALSE
    ELSE IF TurfPolygonThrows(polys[k]) THEN MultiPolygonScan(pt, polys, k + 1)
    ELSE IF BooleanPointInPolygon(pt, polys[k]) THEN TRUE
    ELSE MultiPolygonScan(pt, polys, k + 1)

isPointInPolygon(point, geometry) ==
    IF geometry = Null THEN FALSE
    ELSE IF ~Has(geometry, "coordinates") THEN FALSE
    ELSE IF geometry.type = "Polygon"
       THEN IF TurfPolygonThrows(geometry.coordinates) THEN FALSE
            ELSE BooleanPointInPolygon(PointPos(point), geometry.coordinates)
    ELSE IF geometry.type = "MultiPolygon"
       THEN MultiPolygonScan(PointPos(point), geometry.coordinates, 1)
    ELSE FALSE

(* Haversine distance, on the model's plane. *)
calculateDistance(point1, point2) == Isqrt(Dist2(PointPos(point1), PointPos(point2)))

(* The positions processCoordinates visits in one polygon's rings. *)
RECURSIVE Flatten(_)
Flatten(rings) == IF Len(rings) = 0 THEN <<>> ELSE Head(rings) \o Flatten(Tail(rings))

VertexDistance(point, positions) ==
    SeqMin([k \in 1..Len(positions) |->
               calculateDistance(point, [lat |-> positions[k][2], lng |-> positions[k][1]])])

(* The catch block of calculateDistanceToFeature: nearest vertex; reading  *)
(* coords[0] of a null polygon throws out of the function.                 *)
FallbackDistance(point, geometry) ==
    IF geometry.type = "Polygon"
       THEN [threw |-> FALSE, value |-> VertexDistance(point, Flatten(geometry.coordinates))]
    ELSE IF geometry.type = "MultiPolygon"
       THEN IF \E k \in 1..Len(geometry.coordinates) : geometry.coordinates[k] = NullEntry
               THEN [threw |-> TRUE, value |-> Infinity]
               ELSE [threw |-> FALSE,
                     value |-> SeqMin([k \in 1..Len(geometry.coordinates) |->
                                  VertexDistance(point, Flatten(geometry.coordinates[k]))])]
    ELSE [threw |-> FALSE, value |-> Infinity]

calculateDistanceToFeature(point, feature) ==
    IF ~Has(feature, "geometry") THEN [threw |-> FALSE, value |-> Infinity]
    ELSE IF ~Has(feature.geometry, "coordinates") THEN [threw |-> FALSE, value |-> Infinity]
    ELSE IF BoundaryLineThrows(feature.geometry) THEN FallbackDistance(point, feature.geometry)
    ELSE IF feature.geometry.type = "Polygon"
       THEN [threw |-> FALSE,
             value |-> PointToLineDistance(PointPos(point), feature.geometry.coordinates[1])]
    ELSE [threw |-> FALSE,
          value |-> PointToLineDistance(PointPos(point), feature.geometry.coordinates)]

(* The caps of the scans. *)
InsideScanCap == 20
DistanceScanCap == 5

HasGeometry(feature) ==
    /\ Has(feature, "geometry")
    /\ Has(feature.geometry, "coordinates")

(***************************************************************************)
(* The query points and the features of the model.  The values of the      *)
(* per-feature calls are tabulated once per point and feature (an operator *)
(* is evaluated anew at each use); the scans below read the tables.        *)
(***************************************************************************)
Points == {[lat |-> 0, lng |-> x] : x \in {1, 5, 9, 13, 21}}

CoreFeatures ==
    {Null, FeatureA, FeatureB, FeatureMulti, FeatureMultiNull, FeatureDegenerate,
     FeatureLine, FeatureNoGeometry, FeatureNoCoordinates, FeatureNoProperties,
     FeatureEmptyPGA}

WithGeometry == {f \in (CoreFeatures \ {Null}) \cup {FeatureFar} : HasGeometry(f)}

(* isPointInPolygon(point, feature.geometry), lines 103 and 434. *)
InsideFeature ==
    [p \in Points |-> [f \in WithGeometry |-> isPointInPolygon(p, f.geometry)]]

(* calculateDistanceToFeature(point, feature), line 124. *)
DistanceToFeature ==
    [p \in Points |-> [f \in WithGeometry |-> calculateDistanceToFeature(p, f)]]

(* First loop of checkFloodRisk (lines 99-114): "inside", "none", or       *)
(* "threw" when features[i] is null (feature.geometry is read outside the  *)
(* try block).                                                             *)
RECURSIVE InsideScan(_, _, _, _)
InsideScan(point, features, i, maxFeaturesToCheck) ==
    IF i > maxFeaturesToCheck THEN "none"
    ELSE IF features[i] = Null THEN "threw"
    ELSE IF HasGeometry(features[i]) /\ InsideFeature[point][features[i]]
       THEN "inside"
    ELSE InsideScan(point, features, i + 1, maxFeaturesToCheck)

(* Second loop of checkFloodRisk (lines 121-137) over featuresToCheck. *)
RECURSIVE DistanceScan(_, _, _, _, _)
DistanceScan(point, featuresToCheck, k, minDistance, bufferRadiusKm) ==
    IF k > Len(featuresToCheck) THEN [threw |-> FALSE, minDistance |-> minDistance]
    ELSE IF featuresToCheck[k] = Null THEN [threw |-> TRUE, minDistance |-> minDistance]
    ELSE IF ~HasGeometry(featuresToCheck[k])
       THEN DistanceScan(point, featuresToCheck, k + 1, minDistance, bufferRadiusKm)
    ELSE LET d == DistanceToFeature[point][featuresToCheck[k]]
         IN  IF d.threw
                THEN DistanceScan(point, featuresToCheck, k + 1, minDistance, bufferRadiusKm)
             ELSE IF d.value < minDistance
                THEN IF d.value <= bufferRadiusKm
                        THEN [threw |-> FALSE, minDistance |-> d.value]
                        ELSE DistanceScan(point, featuresToCheck, k + 1, d.value,
                                          bufferRadiusKm)
             ELSE DistanceScan(point, featuresToCheck, k + 1, minDistance, bufferRadiusKm)

Threw == [threw |-> TRUE, value |-> Null]

Returned(v) == [threw |-> FALSE, value |-> v]

(* FloodRiskOf with inBuffer computed without the !inFloodExtent guard. *)
FloodRiskOfUnguarded(inFloodExtent, minDistance, bufferRadiusKm) ==
    LET inBuffer == minDistance <= bufferRadiusKm
    IN  [level |-> IF inFloodExtent THEN "High Risk"
                   ELSE IF inBuffer THEN "Medium Risk" ELSE "Safe",
         distance |-> IF minDistance = Infinity THEN Sentinel ELSE minDistance,
         inFloodExtent |-> inFloodExtent,
         inBuffer |-> inBuffer]

(* FloodRiskOf with the sentinel substituted before the buffer test. *)
FloodRiskOfSentinelFirst(inFloodExtent, minDistance, bufferRadiusKm) ==
    LET distance == IF minDistance = Infinity THEN Sentinel ELSE minDistance
        inBuffer == ~inFloodExtent /\ distance <= bufferRadiusKm
    IN  [level |-> IF inFloodExtent THEN "High Risk"
                   ELSE IF inBuffer THEN "Medium Risk" ELSE "Safe",
         distance |-> distance,
         inFloodExtent |-> inFloodExtent,
         inBuffer |-> inBuffer]

(* FloodRiskOf with the buffer comparison reversed. *)
FloodRiskOfReversed(inFloodExtent, minDistance, bufferRadiusKm) ==
    LET inBuffer == ~inFloodExtent /\ minDistance >= bufferRadiusKm
    IN  [level |-> IF inFloodExtent THEN "High Risk"
                   ELSE IF inBuffer THEN "Medium Risk" ELSE "Safe",
         distance |-> IF minDistance = Infinity THEN Sentinel ELSE minDistance,
         inFloodExtent |-> inFloodExtent,
         inBuffer |-> inBuffer]

(* Lines 141-157: the record built from inFloodExtent and minDistance. *)
FloodRiskOf(inFloodExtent, minDistance, bufferRadiusKm) ==
    LET inBuffer == ~inFloodExtent /\ minDistance <= bufferRadiusKm
    IN  [level |-> IF inFloodExtent THEN "High Risk"
                   ELSE IF inBuffer THEN "Medium Risk" ELSE "Safe",
         distance |-> IF minDistance = Infinity THEN Sentinel ELSE minDistance,
         inFloodExtent |-> inFloodExtent,
         inBuffer |-> inBuffer]

(* checkFloodRisk with the second loop over all the features. *)
checkFloodRiskUncapped(point, floodExtent, bufferRadiusKm) ==
    IF floodExtent = Null THEN Returned(FloodRiskOf(FALSE, Infinity, bufferRadiusKm))
    ELSE IF ~Has(floodExtent, "features")
       THEN Returned(FloodRiskOf(FALSE, Infinity, bufferRadiusKm))
    ELSE
      LET features == floodExtent.features
          first == InsideScan(point, features, 1, Min(InsideScanCap, Len(features)))
      IN  IF first = "threw" THEN Threw
          ELSE IF first = "inside" THEN Returned(FloodRiskOf(TRUE, 0, bufferRadiusKm))
          ELSE LET second == DistanceScan(point, features, 1, Infinity, bufferRadiusKm)
               IN  IF second.threw THEN Threw
                   ELSE Returned(FloodRiskOf(FALSE, second.minDistance, bufferRadiusKm))

checkFloodRisk(point, floodExtent, bufferRadiusKm) ==
    IF floodExtent = Null THEN Returned(FloodRiskOf(FALSE, Infinity, bufferRadiusKm))
    ELSE IF ~Has(floodExtent, "features")
       THEN Returned(FloodRiskOf(FALSE, Infinity, bufferRadiusKm))
    ELSE
      LET features == floodExtent.features
          first == InsideScan(point, features, 1, Min(InsideScanCap, Len(features)))
      IN  IF first = "threw" THEN Threw
          ELSE IF first = "inside" THEN Returned(FloodRiskOf(TRUE, 0, bufferRadiusKm))
          ELSE LET second == DistanceScan(point,
                                 SubSeq(features, 1, Min(DistanceScanCap, Len(features))),
                                 1, Infinity, bufferRadiusKm)
               IN  IF second.threw THEN Threw
                   ELSE Returned(FloodRiskOf(FALSE, second.minDistance, bufferRadiusKm))

HasPGA(feature) ==
    /\ Has(feature, "properties")
    /\ Has(feature.properties, "PGA")
    /\ feature.properties.PGA # ""

(* Lines 424-447 of findEarthquakeZone. *)
RECURSIVE ZoneScan(_, _, _)
ZoneScan(point, features, i) ==
    IF i > Len(features) THEN Returned(Null)
    ELSE IF features[i] = Null THEN Threw
    ELSE IF ~HasGeometry(features[i]) THEN ZoneScan(point, features, i + 1)
    ELSE IF ~HasPGA(features[i]) THEN ZoneScan(point, features, i + 1)
    ELSE IF InsideFeature[point][features[i]]
       THEN Returned([zone |-> features[i].properties.PGA,
                      pga |-> features[i].properties.PGA])
    ELSE ZoneScan(point, features, i + 1)

findEarthquakeZone(point, earthquakeZones) ==
    IF earthquakeZones = Null THEN Returned(Null)
    ELSE IF ~Has(earthquakeZones, "features") THEN Returned(Null)
    ELSE ZoneScan(point, earthquakeZones.features, 1)

(***************************************************************************)
(* findNearestFloodPoint.  Inside the function distances are kept squared  *)
(* and in fifteenths of a unit (the samples lie at k/15 along a segment),  *)
(* which orders them as the kilometre values do; the returned distance is  *)
(* converted back.                                                         *)
(***************************************************************************)
NearestScanCap == 10
numSamples == 15

(* +Infinity among the scaled squared distances. *)
InfinityScaled == numSamples * numSamples * Infinity

Scaled(pos) == <<numSamples * pos[1], numSamples * pos[2]>>


(* Sample k of the segment coord1-coord2 (line 301-303), scaled. *)
Sample(coord1, coord2, k) ==
    <<numSamples * coord1[1] + k * (coord2[1] - coord1[1]),
      numSamples * coord1[2] + k * (coord2[2] - coord1[2])>>

(* Lines 300-316: the closest of the samples k..numSamples, the earliest   *)
(* on a tie.                                                               *)
RECURSIVE SampleLoop(_, _, _, _, _)
SampleLoop(pt, coord1, coord2, k, segmentClosest) ==
    IF k > numSamples THEN segmentClosest
    ELSE LET sampleDist == Dist2(Scaled(pt), Sample(coord1, coord2, k))
         IN  SampleLoop(pt, coord1, coord2, k + 1,
                        IF sampleDist < segmentClosest.dist
                           THEN [dist |-> sampleDist, coord |-> Sample(coord1, coord2, k)]
                           ELSE segmentClosest)

ClosestSample(pt, coord1, coord2) ==
    SampleLoop(pt, coord1, coord2, 0, [dist |-> InfinityScaled, coord |-> NullEntry])

(* Lines 274-350: the walk over the boundary segments, wrapping around. *)
RECURSIVE SegmentWalk(_, _, _, _)
SegmentWalk(pt, boundaryCoords, j, closest) ==
    IF j > Len(boundaryCoords) THEN closest
    ELSE
      LET coord1 == boundaryCoords[j]
          coord2 == boundaryCoords[(j % Len(boundaryCoords)) + 1]
          dist   == numSamples * numSamples * SegDist2(pt, coord1, coord2)
          seg    == ClosestSample(pt, coord1, coord2)
          dist1  == Dist2(Scaled(pt), Scaled(coord1))
          dist2  == Dist2(Scaled(pt), Scaled(coord2))
          next   == IF dist < closest.dist
                       THEN IF seg.dist < closest.dist THEN seg
                            ELSE IF dist1 < dist2 /\ dist1 < closest.dist
                               THEN [dist |-> dist1, coord |-> Scaled(coord1)]
                            ELSE IF dist2 < closest.dist
                               THEN [dist |-> dist2, coord |-> Scaled(coord2)]
                            ELSE closest
                       ELSE closest
      IN  SegmentWalk(pt, boundaryCoords, j + 1, next)

(* Lines 241-263: the outer ring the function walks, <<>> when none. *)
BoundaryCoords(geometry) ==
    IF geometry.type = "Polygon" THEN geometry.coordinates[1]
    ELSE IF geometry.type = "MultiPolygon" /\ geometry.coordinates[1] # NullEntry
       THEN geometry.coordinates[1][1]
    ELSE <<>>

(* Lines 241-350 for one feature: its closest boundary sample. *)
ClosestOnFeature(point, feature) ==
    SegmentWalk(PointPos(point), BoundaryCoords(feature.geometry), 1,
                [dist |-> InfinityScaled, coord |-> NullEntry])

ClosestOfFeature ==
    [p \in Points |-> [f \in WithGeometry |-> ClosestOnFeature(p, f)]]

RECURSIVE NearestScan(_, _, _, _, _)
NearestScan(point, features, i, maxFeatures, best) ==
    IF i > maxFeatures THEN Returned(best)
    ELSE IF features[i] = Null THEN Threw
    ELSE IF ~HasGeometry(features[i]) THEN NearestScan(point, features, i + 1, maxFeatures, best)
    ELSE
      LET boundaryCoords == BoundaryCoords(features[i].geometry)
          closest == ClosestOfFeature[point][features[i]]
      IN  IF Len(boundaryCoords) = 0 \/ ~(closest.dist < best.dist)
             THEN NearestScan(point, features, i + 1, maxFeatures, best)
             ELSE NearestScan(point, features, i + 1, maxFeatures,
                              [dist |-> closest.dist, coord |-> closest.coord, feature |-> i])

(* Lines 404-408; feature is the index of the nearest feature, 0 for null. *)
NearestResult(best) ==
    [distance |-> IF best.dist = InfinityScaled THEN Sentinel
                  ELSE Isqrt(best.dist \div (numSamples * numSamples)),
     nearestPoint |-> IF best.coord = NullEntry THEN Null
                      ELSE [lat |-> best.coord[2] \div numSamples,
                            lng |-> best.coord[1] \div numSamples],
     feature |-> best.feature]

findNearestFloodPoint(point, floodExtent) ==
    IF floodExtent = Null
       THEN Returned([distance |-> Infinity, nearestPoint |-> Null, feature |-> 0])
    ELSE IF ~Has(floodExtent, "features")
       THEN Returned([distance |-> Infinity, nearestPoint |-> Null, feature |-> 0])
    ELSE LET features == floodExtent.features
             scan == NearestScan(point, features, 1, Min(NearestScanCap, Len(features)),
                                 [dist |-> InfinityScaled, coord |-> NullEntry, feature |-> 0])
         IN  IF scan.threw THEN Threw ELSE Returned(NearestResult(scan.value))

(***************************************************************************)
(* The inputs.                                                             *)
(***************************************************************************)
MaxCore == 2

BufferRadii == {3, 5, 1000}

(* The numbers of leading far-away features: none, and enough to put the   *)
(* features that follow just before and just after each cap.               *)
PadCounts ==
    {0} \cup {c - 1 : c \in {DistanceScanCap, NearestScanCap, InsideScanCap}}
        \cup {DistanceScanCap, NearestScanCap, InsideScanCap}

(* A feature list: some far-away features, then up to MaxCore others. *)
FeatureLists ==
    {[i \in 1..k |-> FeatureFar] \o core :
        k \in PadCounts, core \in UNION {[1..n -> CoreFeatures] : n \in 0..MaxCore}}

Collections ==
    {Null, [type |-> "FeatureCollection"]}
        \cup {[type |-> "FeatureCollection", features |-> fs] : fs \in FeatureLists}

(* The geometries isPointInPolygon is applied to: null, or a member of a   *)
(* feature of the collection.                                              *)
GeometriesOf(c) ==
    {Null} \cup
    IF c # Null /\ Has(c, "features")
       THEN {c.features[i].geometry :
                i \in {j \in 1..Len(c.features) :
                          c.features[j] # Null /\ Has(c.features[j], "geometry")}}
       ELSE {}

(***************************************************************************)
(* The hazard-lookup calls on a loaded collection.                         *)
(***************************************************************************)
Init ==
    /\ collection \in Collections
    /\ call = [op |-> "none"]
    /\ ret = Returned(Null)
    /\ NoPage

CallCheckFloodRisk ==
    /\ call.op = "none"
    /\ \E p \in Points, r \in BufferRadii :
        /\ call' = [op |-> "checkFloodRisk", point |-> p, bufferRadiusKm |-> r]
        /\ ret' = checkFloodRisk(p, collection, r)
        /\ UNCHANGED <<collection, page, cache, view, now>>

CallFindEarthquakeZone ==
    /\ call.op = "none"
    /\ \E p \in Points :
        /\ call' = [op |-> "findEarthquakeZone", point |-> p]
        /\ ret' = findEarthquakeZone(p, collection)
        /\ UNCHANGED <<collection, page, cache, view, now>>

CallFindNearestFloodPoint ==
    /\ call.op = "none"
    /\ \E p \in Points :
        /\ call' = [op |-> "findNearestFloodPoint", point |-> p]
        /\ ret' = findNearestFloodPoint(p, collection)
        /\ UNCHANGED <<collection, page, cache, view, now>>

CallIsPointInPolygon ==
    /\ call.op = "none"
    /\ \E p \in Points, g \in GeometriesOf(collection) :
        /\ call' = [op |-> "isPointInPolygon", point |-> p, geometry |-> g]
        /\ ret' = [threw |-> FALSE, value |-> [inside |-> isPointInPolygon(p, g)]]
        /\ UNCHANGED <<collection, page, cache, view, now>>

Next ==
    \/ CallCheckFloodRisk
    \/ CallFindEarthquakeZone
    \/ CallFindNearestFloodPoint
    \/ CallIsPointInPolygon

Spec == Init /\ [][Next]_vars

(***************************************************************************)
(* Exact arithmetic for the cost model.  A component multiplier is a whole *)
(* number of hundredths (1.15 is 115); products and amounts are reduced    *)
(* fractions [n, d].                                                       *)
(***************************************************************************)
RECURSIVE GCD(_, _)
GCD(a, b) == IF b = 0 THEN a ELSE GCD(b, a % b)

Rat(n, d) == LET g == GCD(Abs(n), d) IN [n |-> n \div g, d |-> d \div g]

RatMul(x, y) ==
    LET g1 == GCD(Abs(x.n), y.d)
        g2 == GCD(Abs(y.n), x.d)
    IN  [n |-> (x.n \div g1) * (y.n \div g2), d |-> (x.d \div g2) * (y.d \div g1)]

RatAdd(x, y) ==
    LET g == GCD(x.d, y.d)
    IN  Rat(x.n * (y.d \div g) + y.n * (x.d \div g), (x.d \div g) * y.d)

RatLess(x, y) ==
    LET g == GCD(x.d, y.d) IN x.n * (y.d \div g) < y.n * (x.d \div g)

Whole(n) == [n |-> n, d |-> 1]

Hundredths(h) == Rat(h, 100)

(***************************************************************************)
(* src/lib/earthquake-zones-info.ts                                        *)
(***************************************************************************)
(* earthquakeZonesInfo with the multipliers of Zone 2B and Zone 3          *)
(* exchanged.                                                              *)
earthquakeZonesInfoExchanged ==
    [z \in {"Zone 1", "Zone 2A", "Zone 2B", "Zone 3", "Zone 4"} |->
        CASE z = "Zone 1"  -> [riskLevel |-> "Low", costMultiplier |-> 100]
          [] z = "Zone 2A" -> [riskLevel |-> "Moderate", costMultiplier |-> 115]
          [] z = "Zone 2B" -> [riskLevel |-> "Moderate", costMultiplier |-> 150]
          [] z = "Zone 3"  -> [riskLevel |-> "High", costMultiplier |-> 130]
          [] z = "Zone 4"  -> [riskLevel |-> "Very High", costMultiplier |-> 180]]

earthquakeZonesInfo ==
    [z \in {"Zone 1", "Zone 2A", "Zone 2B", "Zone 3", "Zone 4"} |->
        CASE z = "Zone 1"  -> [riskLevel |-> "Low", costMultiplier |-> 100]
          [] z = "Zone 2A" -> [riskLevel |-> "Moderate", costMultiplier |-> 115]
          [] z = "Zone 2B" -> [riskLevel |-> "Moderate", costMultiplier |-> 130]
          [] z = "Zone 3"  -> [riskLevel |-> "High", costMultiplier |-> 150]
          [] z = "Zone 4"  -> [riskLevel |-> "Very High", costMultiplier |-> 180]]

(* Names every object literal inherits from Object.prototype. *)
InheritedNames == {"constructor", "toString", "valueOf", "hasOwnProperty"}

(* earthquakeZonesInfo[zoneName] || null: an own entry, an inherited       *)
(* member of the table object (truthy, without costMultiplier), or null.   *)
getZoneInfo(zoneName) ==
    IF zoneName \in DOMAIN earthquakeZonesInfo THEN earthquakeZonesInfo[zoneName]
    ELSE IF zoneName \in InheritedNames THEN [inherited |-> zoneName]
    ELSE Null

(***************************************************************************)
(* src/lib/climate.ts                                                      *)
(***************************************************************************)
(* getClimateCostMultiplier with the cold branches tested apart from the   *)
(* hot ones.                                                               *)
getClimateCostMultiplierCumulative(climate) ==
    IF climate = Null THEN 100
    ELSE 100
         + (IF climate.temperature2mMax > 40 THEN 8
            ELSE IF climate.temperature2mMax > 35 THEN 5
            ELSE 0)
         + (IF climate.temperature2mMin < -10 THEN 8
            ELSE IF climate.temperature2mMin < 0 THEN 5
            ELSE 0)
         + (IF climate.precipitationSum > 200 THEN 6
            ELSE IF climate.precipitationSum > 100 THEN 3
            ELSE 0)
         + (IF climate.relativehumidity2mMean > 0
               THEN IF climate.relativehumidity2mMean > 80 THEN 4
                    ELSE IF climate.relativehumidity2mMean > 70 THEN 2
                    ELSE 0
               ELSE 0)
         + (IF climate.windspeed10mMean > 25 THEN 5
            ELSE IF climate.windspeed10mMean > 15 THEN 2
            ELSE 0)

(* getClimateCostMultiplier without the moderate-wind branch. *)
getClimateCostMultiplierNoModerateWind(climate) ==
    IF climate = Null THEN 100
    ELSE 100
         + (IF climate.temperature2mMax > 40 THEN 8
            ELSE IF climate.temperature2mMax > 35 THEN 5
            ELSE IF climate.temperature2mMin < -10 THEN 8
            ELSE IF climate.temperature2mMin < 0 THEN 5
            ELSE 0)
         + (IF climate.precipitationSum > 200 THEN 6
            ELSE IF climate.precipitationSum > 100 THEN 3
            ELSE 0)
         + (IF climate.relativehumidity2mMean > 0
               THEN IF climate.relativehumidity2mMean > 80 THEN 4
                    ELSE IF climate.relativehumidity2mMean > 70 THEN 2
                    ELSE 0
               ELSE 0)
         + (IF climate.windspeed10mMean > 25 THEN 5 ELSE 0)

getClimateCostMultiplier(climate) ==
    IF climate = Null THEN 100
    ELSE 100
         + (IF climate.temperature2mMax > 40 THEN 8
            ELSE IF climate.temperature2mMax > 35 THEN 5
            ELSE IF climate.temperature2mMin < -10 THEN 8
            ELSE IF climate.temperature2mMin < 0 THEN 5
            ELSE 0)
         + (IF climate.precipitationSum > 200 THEN 6
            ELSE IF climate.precipitationSum > 100 THEN 3
            ELSE 0)
         + (IF climate.relativehumidity2mMean > 0
               THEN IF climate.relativehumidity2mMean > 80 THEN 4
                    ELSE IF climate.relativehumidity2mMean > 70 THEN 2
                    ELSE 0
               ELSE 0)
         + (IF climate.windspeed10mMean > 25 THEN 5
            ELSE IF climate.windspeed10mMean > 15 THEN 2
            ELSE 0)

(* classifyClimateZone with the 1000 mm threshold missing from the last    *)
(* branch.                                                                 *)
classifyClimateZoneSplit(meanTemp, precipitation) ==
    IF meanTemp < 0 THEN "Polar"
    ELSE IF meanTemp < 10
       THEN IF precipitation < 50 THEN "Cold Desert" ELSE "Cold"
    ELSE IF meanTemp < 18
       THEN IF precipitation < 50 THEN "Temperate Desert"
            ELSE IF precipitation < 200 THEN "Temperate Semi-Arid"
            ELSE "Temperate"
    ELSE IF meanTemp < 25
       THEN IF precipitation < 50 THEN "Hot Desert"
            ELSE IF precipitation < 200 THEN "Hot Semi-Arid"
            ELSE IF precipitation < 1000 THEN "Tropical Savanna"
            ELSE "Tropical"
    ELSE IF precipitation < 50 THEN "Hot Desert"
         ELSE IF precipitation < 200 THEN "Hot Semi-Arid"
         ELSE "Tropical"

classifyClimateZone(meanTemp, precipitation) ==
    IF meanTemp < 0 THEN "Polar"
    ELSE IF meanTemp < 10
       THEN IF precipitation < 50 THEN "Cold Desert" ELSE "Cold"
    ELSE IF meanTemp < 18
       THEN IF precipitation < 50 THEN "Temperate Desert"
            ELSE IF precipitation < 200 THEN "Temperate Semi-Arid"
            ELSE "Temperate"
    ELSE IF meanTemp < 25
       THEN IF precipitation < 50 THEN "Hot Desert"
            ELSE IF precipitation < 200 THEN "Hot Semi-Arid"
            ELSE IF precipitation < 1000 THEN "Tropical Savanna"
            ELSE "Tropical"
    ELSE IF precipitation < 50 THEN "Hot Desert"
         ELSE IF precipitation < 200 THEN "Hot Semi-Arid"
         ELSE IF precipitation < 1000 THEN "Tropical Savanna"
         ELSE "Tropical"

(***************************************************************************)
(* The ConstructionCost component: the values one render computes from its *)
(* props and its climate and weather state.                                *)
(***************************************************************************)
(* EarthquakeMultiplier without the || 1.0 default. *)
EarthquakeMultiplierNoDefault(earthquakeZone) ==
    LET zoneInfo == IF earthquakeZone # Null THEN getZoneInfo(earthquakeZone.zone) ELSE Null
    IN  IF zoneInfo # Null /\ Has(zoneInfo, "costMultiplier")
           THEN zoneInfo.costMultiplier
           ELSE 0

(* zoneInfo?.costMultiplier || 1.0 *)
EarthquakeMultiplier(earthquakeZone) ==
    LET zoneInfo == IF earthquakeZone # Null THEN getZoneInfo(earthquakeZone.zone) ELSE Null
    IN  IF zoneInfo # Null /\ Has(zoneInfo, "costMultiplier") /\ zoneInfo.costMultiplier # 0
           THEN zoneInfo.costMultiplier
           ELSE 100

(* FloodMultiplier with the two risk levels exchanged. *)
FloodMultiplierSwapped(floodRisk) ==
    IF floodRisk # Null /\ floodRisk.level = "Medium Risk" THEN 130
    ELSE IF floodRisk # Null /\ floodRisk.level = "High Risk" THEN 115
    ELSE 100

FloodMultiplier(floodRisk) ==
    IF floodRisk # Null /\ floodRisk.level = "High Risk" THEN 130
    ELSE IF floodRisk # Null /\ floodRisk.level = "Medium Risk" THEN 115
    ELSE 100

(* ElevationMultiplier with the thresholds themselves in the higher tier. *)
ElevationMultiplierInclusive(elevation) ==
    IF elevation = Null THEN 100
    ELSE IF elevation.elevation >= 2000 THEN 115
    ELSE IF elevation.elevation >= 1000 THEN 110
    ELSE IF elevation.elevation >= 500 THEN 105
    ELSE 100

ElevationMultiplier(elevation) ==
    IF elevation = Null THEN 100
    ELSE IF elevation.elevation > 2000 THEN 115
    ELSE IF elevation.elevation > 1000 THEN 110
    ELSE IF elevation.elevation > 500 THEN 105
    ELSE 100

(* WeatherTerms with the last condition open above: temperature > 15. *)
WeatherTermsNoUpper(weather) ==
    [humidity |-> IF weather.humidity > 80 THEN 3 ELSE 0,
     temperature |-> IF weather.temperature > 40 \/ weather.temperature < 0 THEN 5 ELSE 0,
     wind |-> IF weather.windSpeed > 30 THEN 4 ELSE 0,
     precipitation |-> IF weather.humidity > 85 /\ weather.temperature > 15 THEN 2 ELSE 0]

(* The increments of lines 105-120, in the order of the code. *)
WeatherTerms(weather) ==
    [humidity |-> IF weather.humidity > 80 THEN 3 ELSE 0,
     temperature |-> IF weather.temperature > 40 \/ weather.temperature < 0 THEN 5 ELSE 0,
     wind |-> IF weather.windSpeed > 30 THEN 4 ELSE 0,
     precipitation |-> IF weather.humidity > 85 /\ weather.temperature > 15
                          /\ weather.temperature < 35 THEN 2 ELSE 0]

(* WeatherMultiplier with the last term added only when no earlier term    *)
(* was.                                                                    *)
WeatherMultiplierExclusive(climate, weather) ==
    IF climate = Null /\ weather # Null
       THEN LET terms == WeatherTerms(weather)
                above == terms.humidity + terms.temperature + terms.wind
            IN  100 + above + (IF above = 0 THEN terms.precipitation ELSE 0)
       ELSE 100

WeatherMultiplier(climate, weather) ==
    IF climate = Null /\ weather # Null
       THEN LET terms == WeatherTerms(weather)
            IN  100 + terms.humidity + terms.temperature + terms.wind + terms.precipitation
       ELSE 100

EnvironmentalMultiplier(climate, weather) ==
    IF climate # Null THEN getClimateCostMultiplier(climate)
    ELSE WeatherMultiplier(climate, weather)

(* TotalMultiplier as 1.0 plus the sum of the factors' excesses over 1.0. *)
TotalMultiplierAdditive(earthquakeMultiplier, floodMultiplier, elevationMultiplier, environmentalMultiplier) ==
    Hundredths(earthquakeMultiplier + floodMultiplier + elevationMultiplier + environmentalMultiplier - 300)

(* TotalMultiplier as the product of the hazard factors alone. *)
TotalMultiplierHazardOnly(earthquakeMultiplier, floodMultiplier, elevationMultiplier, environmentalMultiplier) ==
    RatMul(Hundredths(earthquakeMultiplier), Hundredths(floodMultiplier))

TotalMultiplier(earthquakeMultiplier, floodMultiplier, elevationMultiplier, environmentalMultiplier) ==
    RatMul(RatMul(RatMul(Hundredths(earthquakeMultiplier), Hundredths(floodMultiplier)),
                  Hundredths(elevationMultiplier)),
           Hundredths(environmentalMultiplier))

houseSize == 1000

(* baseCostPerSqft * (multiplier - 1) *)
FactorCost(baseCost, multiplier) == RatMul(Whole(baseCost), Hundredths(multiplier - 100))

(* Positive keeping the items of value zero as well. *)
PositiveOrZero(items) == SelectSeq(items, LAMBDA item : item.value.n >= 0)

Positive(items) == SelectSeq(items, LAMBDA item : item.value.n > 0)

ConstructionCost(props, climate, weather) ==
    LET earthquakeMultiplier == EarthquakeMultiplier(props.earthquakeZone)
        floodMultiplier == FloodMultiplier(props.floodRisk)
        elevationMultiplier == ElevationMultiplier(props.elevation)
        environmentalMultiplier == EnvironmentalMultiplier(climate, weather)
        totalMultiplier == TotalMultiplier(earthquakeMultiplier, floodMultiplier,
                                           elevationMultiplier, environmentalMultiplier)
        adjustedCostPerSqft == RatMul(Whole(props.baseCost), totalMultiplier)
        scale(cost) == RatMul(cost, Whole(houseSize))
    IN  [earthquakeMultiplier |-> earthquakeMultiplier,
         floodMultiplier |-> floodMultiplier,
         elevationMultiplier |-> elevationMultiplier,
         environmentalMultiplier |-> environmentalMultiplier,
         totalMultiplier |-> totalMultiplier,
         adjustedCostPerSqft |-> adjustedCostPerSqft,
         totalCost |-> scale(adjustedCostPerSqft),
         costBreakdown |-> Positive(<<
            [name |-> "Base Construction", value |-> scale(Whole(props.baseCost))],
            [name |-> "Earthquake Mitigation",
             value |-> scale(FactorCost(props.baseCost, earthquakeMultiplier))],
            [name |-> "Flood Protection",
             value |-> scale(FactorCost(props.baseCost, floodMultiplier))],
            [name |-> "Elevation Factors",
             value |-> scale(FactorCost(props.baseCost, elevationMultiplier))],
            [name |-> IF climate # Null THEN "Climate Adaptation" ELSE "Weather Adaptation",
             value |-> scale(FactorCost(props.baseCost, environmentalMultiplier))] >>)]

(* src/components/ConstructionCost.tsx: the variant of the component that  *)
(* takes neither elevation nor weather and holds no climate.               *)
ConstructionCostLegacy(props) ==
    LET earthquakeMultiplier == EarthquakeMultiplier(props.earthquakeZone)
        floodMultiplier == FloodMultiplier(props.floodRisk)
        totalMultiplier == RatMul(Hundredths(earthquakeMultiplier), Hundredths(floodMultiplier))
        adjustedCostPerSqft == RatMul(Whole(props.baseCost), totalMultiplier)
        scale(cost) == RatMul(cost, Whole(houseSize))
    IN  [earthquakeMultiplier |-> earthquakeMultiplier,
         floodMultiplier |-> floodMultiplier,
         totalMultiplier |-> totalMultiplier,
         adjustedCostPerSqft |-> adjustedCostPerSqft,
         totalCost |-> scale(adjustedCostPerSqft),
         costBreakdown |-> Positive(<<
            [name |-> "Base Construction", value |-> scale(Whole(props.baseCost))],
            [name |-> "Earthquake Mitigation",
             value |-> scale(FactorCost(props.baseCost, earthquakeMultiplier))],
            [name |-> "Flood Protection",
             value |-> scale(FactorCost(props.baseCost, floodMultiplier))] >>)]

(***************************************************************************)
(* The renders of the cost component on its props and state.               *)
(***************************************************************************)
Locations == {Null, [lat |-> 0, lng |-> 5]}

FloodRisks ==
    {Null, FloodRiskOf(TRUE, 0, 5), FloodRiskOf(FALSE, 3, 5), FloodRiskOf(FALSE, 9, 5),
     FloodRiskOf(FALSE, Infinity, 5)}

ZoneLabels == DOMAIN earthquakeZonesInfo \cup {"Zone 5", "constructor"}

EarthquakeZones == {Null} \cup {[zone |-> l, pga |-> l] : l \in ZoneLabels}

Elevations ==
    {Null} \cup {[elevation |-> e] : e \in {0, 500, 501, 1000, 1001, 2000, 2001}}

Climate(tmax, tmin, precipitation, humidity, wind) ==
    [temperature2mMax |-> tmax, temperature2mMin |-> tmin,
     precipitationSum |-> precipitation, relativehumidity2mMean |-> humidity,
     windspeed10mMean |-> wind]

Climates ==
    {Null, Climate(42, 20, 250, 85, 30), Climate(30, 5, 50, 50, 10),
     Climate(20, -15, 150, 75, 20)}

Weather(temperature, humidity, windSpeed) ==
    [temperature |-> temperature, humidity |-> humidity, windSpeed |-> windSpeed]

Weathers == {Null, Weather(42, 90, 35), Weather(25, 90, 10), Weather(20, 50, 5)}

BaseCosts == {1500, 2000}

InitCost ==
    /\ collection = Null
    /\ call = [op |-> "none"]
    /\ ret = Returned(Null)
    /\ NoPage

(* The component of src/unnamed/part_002; without a location it renders a  *)
(* placeholder and computes nothing.                                       *)
RenderConstructionCost ==
    /\ call.op = "none"
    /\ \E location \in Locations, floodRisk \in FloodRisks, earthquakeZone \in EarthquakeZones,
       elevation \in Elevations, baseCost \in BaseCosts,
       climate \in Climates, weather \in Weathers :
        LET props == [location |-> location, floodRisk |-> floodRisk,
                      earthquakeZone |-> earthquakeZone, elevation |-> elevation,
                      baseCost |-> baseCost]
        IN  /\ call' = [op |-> "ConstructionCost", props |-> props,
                        climate |-> climate, weather |-> weather]
            /\ ret' = IF location = Null THEN Returned(Null)
                      ELSE Returned(ConstructionCost(props, climate, weather))
            /\ UNCHANGED <<collection, page, cache, view, now>>

RenderConstructionCostLegacy ==
    /\ call.op = "none"
    /\ \E location \in Locations, floodRisk \in FloodRisks, earthquakeZone \in EarthquakeZones,
       baseCost \in BaseCosts :
        LET props == [location |-> location, floodRisk |-> floodRisk,
                      earthquakeZone |-> earthquakeZone, baseCost |-> baseCost]
        IN  /\ call' = [op |-> "ConstructionCostLegacy", props |-> props]
            /\ ret' = IF location = Null THEN Returned(Null)
                      ELSE Returned(ConstructionCostLegacy(props))
            /\ UNCHANGED <<collection, page, cache, view, now>>

NextCost == RenderConstructionCost \/ RenderConstructionCostLegacy

SpecCost == InitCost /\ [][NextCost]_vars

(***************************************************************************)
(* The tables: the climate multiplier, the climate classification, the     *)
(* zone catalog and the environmental part of a render, each applied to    *)
(* inputs on and around its thresholds.                                    *)
(***************************************************************************)
ClimateRecords ==
    {Climate(tmax, tmin, precipitation, humidity, wind) :
        tmax \in {30, 35, 36, 40, 41, 42}, tmin \in {-15, -10, -5, 0, 5},
        precipitation \in {100, 101, 200, 201, 250}, humidity \in {0, 70, 71, 80, 81, 85},
        wind \in {15, 16, 25, 26, 30}}

MeanTemps == {-1, 0, 9, 10, 17, 18, 24, 25, 30}

Precipitations == {0, 49, 50, 199, 200, 999, 1000, 1500}

WeatherSnapshots ==
    {Weather(temperature, humidity, windSpeed) :
        temperature \in {-5, 0, 15, 16, 25, 34, 35, 40, 41}, humidity \in {50, 80, 81, 85, 86, 90},
        windSpeed \in {5, 30, 31}}

ZoneNames == ZoneLabels \cup {"", "toString"}

InitTables ==
    /\ collection = Null
    /\ call = [op |-> "none"]
    /\ ret = Returned(Null)
    /\ NoPage

CallGetClimateCostMultiplier ==
    /\ call.op = "none"
    /\ \E climate \in {Null} \cup ClimateRecords :
        /\ call' = [op |-> "getClimateCostMultiplier", climate |-> climate]
        /\ ret' = Returned([multiplier |-> getClimateCostMultiplier(climate)])
        /\ UNCHANGED <<collection, page, cache, view, now>>

CallClassifyClimateZone ==
    /\ call.op = "none"
    /\ \E meanTemp \in MeanTemps, precipitation \in Precipitations :
        /\ call' = [op |-> "classifyClimateZone", meanTemp |-> meanTemp,
                    precipitation |-> precipitation]
        /\ ret' = Returned([label |-> classifyClimateZone(meanTemp, precipitation)])
        /\ UNCHANGED <<collection, page, cache, view, now>>

CallGetZoneInfo ==
    /\ call.op = "none"
    /\ \E zoneName \in ZoneNames :
        /\ call' = [op |-> "getZoneInfo", zoneName |-> zoneName]
        /\ ret' = Returned(getZoneInfo(zoneName))
        /\ UNCHANGED <<collection, page, cache, view, now>>

(* Lines 98-124 of a render: the environmental multiplier from the climate *)
(* and weather state, with the increments of the weather fallback.         *)
RenderEnvironment ==
    /\ call.op = "none"
    /\ \E climate \in Climates, weather \in {Null} \cup WeatherSnapshots :
        /\ call' = [op |-> "environmentalMultiplier", climate |-> climate, weather |-> weather]
        /\ ret' = Returned(
               [climateMultiplier |-> getClimateCostMultiplier(climate),
                weatherMultiplier |-> WeatherMultiplier(climate, weather),
                weatherTerms |-> IF climate = Null /\ weather # Null
                                    THEN WeatherTerms(weather)
                                    ELSE [humidity |-> 0, temperature |-> 0, wind |-> 0,
                                          precipitation |-> 0],
                environmentalMultiplier |-> EnvironmentalMultiplier(climate, weather)])
        /\ UNCHANGED <<collection, page, cache, view, now>>

NextTables ==
    \/ CallGetClimateCostMultiplier
    \/ CallClassifyClimateZone
    \/ CallGetZoneInfo
    \/ RenderEnvironment

SpecTables == InitTables /\ [][NextTables]_vars

(***************************************************************************)
(* What the claims speak of, stated on the inputs.                         *)
(***************************************************************************)
FeaturesOf(c) == IF c # Null /\ Has(c, "features") THEN c.features ELSE <<>>

(* The point lies in the feature's polygon, or in one of the polygons of   *)
(* its MultiPolygon.                                                       *)
Contains(feature, point) ==
    /\ feature # Null
    /\ HasGeometry(feature)
    /\ LET g == feature.geometry
           inPolygon(coords) ==
               /\ ~TurfPolygonThrows(coords)
               /\ BooleanPointInPolygon(PointPos(point), coords)
       IN  \/ g.type = "Polygon" /\ inPolygon(g.coordinates)
           \/ /\ g.type = "MultiPolygon"
              /\ \E k \in 1..Len(g.coordinates) : inPolygon(g.coordinates[k])

(* The lines of a feature's boundary: the rings of its polygons, or the    *)
(* line itself; none when an entry of the coordinates is null.             *)
BoundaryLines(feature) ==
    IF feature = Null THEN {}
    ELSE IF ~HasGeometry(feature) THEN {}
    ELSE LET g == feature.geometry
         IN  IF g.type = "Polygon" THEN {g.coordinates[k] : k \in 1..Len(g.coordinates)}
             ELSE IF g.type = "MultiPolygon"
                THEN IF \E k \in 1..Len(g.coordinates) : g.coordinates[k] = NullEntry
                        THEN {}
                        ELSE UNION {{g.coordinates[k][m] : m \in 1..Len(g.coordinates[k])} :
                                       k \in 1..Len(g.coordinates)}
             ELSE IF g.type = "LineString" THEN {g.coordinates}
             ELSE {}

(* The distance from the point to the feature's boundary: d is it iff some *)
(* boundary segment is at distance d and none is nearer.                   *)
IsBoundaryDistance(feature, point, d) ==
    LET segs == UNION {{<<line, k>> : k \in 1..(Len(line) - 1)} :
                          line \in BoundaryLines(feature)}
        dist2(sg) == SegDist2(PointPos(point), sg[1][sg[2]], sg[1][sg[2] + 1])
    IN  /\ \E sg \in segs : dist2(sg) = d * d
        /\ \A sg \in segs : dist2(sg) >= d * d

HasBoundaryDistance(feature) == BoundaryLines(feature) # {}

IsFloodCall == call.op = "checkFloodRisk"

FloodReturned == IsFloodCall /\ ~ret.threw

(* Some feature among the first n of the collection contains the point. *)
ContainedWithin(n) ==
    \E i \in 1..Min(n, Len(FeaturesOf(collection))) :
        Contains(FeaturesOf(collection)[i], call.point)

(* Feature i of the collection has its boundary within the buffer. *)
WithinBuffer(i) ==
    \E d \in 0..call.bufferRadiusKm :
        IsBoundaryDistance(FeaturesOf(collection)[i], call.point, d)

(* C1: every FloodRisk that checkFloodRisk returns has level "High Risk"   *)
(* exactly when inFloodExtent is true, "Medium Risk" exactly when          *)
(* inFloodExtent is false and inBuffer is true, "Safe" otherwise, and      *)
(* inBuffer true only with inFloodExtent false.                            *)
C1_FloodRiskLevels ==
    FloodReturned =>
        LET risk == ret.value
        IN  /\ risk.level \in {"High Risk", "Medium Risk", "Safe"}
            /\ risk.level = "High Risk" <=> risk.inFloodExtent
            /\ risk.level = "Medium Risk" <=> (~risk.inFloodExtent /\ risk.inBuffer)
            /\ risk.level = "Safe" <=> (~risk.inFloodExtent /\ ~risk.inBuffer)
            /\ risk.inBuffer => ~risk.inFloodExtent

C1_Witness ==
    /\ FloodReturned
    /\ ret.value.level = "High Risk"
    /\ ret.value.distance <= call.bufferRadiusKm
    /\ ~ret.value.inBuffer

(* C2: checkFloodRisk returns inFloodExtent true, distance 0 and level     *)
(* "High Risk" if and only if one of the first 20 features of the          *)
(* collection contains the point; a containing feature at position 21 or   *)
(* later does not by itself give "High Risk".                              *)
C2_HighRiskIffContained ==
    IsFloodCall =>
        ((/\ ~ret.threw
          /\ ret.value.inFloodExtent
          /\ ret.value.distance = 0
          /\ ret.value.level = "High Risk")
         <=> ContainedWithin(InsideScanCap))

(* C3: when none of the first 20 features contains the point,              *)
(* checkFloodRisk returns inBuffer true and "Medium Risk" if and only if   *)
(* one of the first 5 features has its boundary within bufferRadiusKm, and *)
(* the distance returned is then that of the first such feature.           *)
C3_MediumRiskIffWithinBuffer ==
    (IsFloodCall /\ ~ContainedWithin(InsideScanCap)) =>
        LET near == {i \in 1..Min(DistanceScanCap, Len(FeaturesOf(collection))) :
                        WithinBuffer(i)}
        IN  /\ (~ret.threw /\ ret.value.inBuffer /\ ret.value.level = "Medium Risk")
                   <=> near # {}
            /\ near # {} =>
                   /\ ~ret.threw
                   /\ \E i \in near :
                          /\ \A j \in near : i <= j
                          /\ IsBoundaryDistance(FeaturesOf(collection)[i], call.point,
                                                ret.value.distance)

(* C4: no call of checkFloodRisk, findEarthquakeZone or                    *)
(* findNearestFloodPoint lets an exception out, a null entry among the     *)
(* features included.                                                      *)
C4_NoExceptionPropagates ==
    call.op \in {"checkFloodRisk", "findEarthquakeZone", "findNearestFloodPoint"}
        => ~ret.threw

(* C5: for a null collection, one without features and one with no        *)
(* features checkFloodRisk returns exactly {Safe, 999, false, false};      *)
(* whatever bufferRadiusKm is, the distance returned is 999 exactly when   *)
(* no finite distance was found; findEarthquakeZone returns null for such  *)
(* a collection.                                                           *)
C5_SentinelWhenNothingFound ==
    LET n == Len(FeaturesOf(collection))
        nothingFound ==
            /\ ~ContainedWithin(InsideScanCap)
            /\ \A i \in 1..Min(DistanceScanCap, n) :
                   ~HasBoundaryDistance(FeaturesOf(collection)[i])
    IN  /\ (IsFloodCall /\ n = 0) =>
               ret = Returned([level |-> "Safe", distance |-> 999,
                               inFloodExtent |-> FALSE, inBuffer |-> FALSE])
        /\ FloodReturned => (ret.value.distance = 999 <=> nothingFound)
        /\ (call.op = "findEarthquakeZone" /\ n = 0) => ret = Returned(Null)

C5_Witness ==
    /\ FloodReturned
    /\ call.bufferRadiusKm > 999
    /\ FeaturesOf(collection) = <<>>
    /\ ret.value.distance = 999
    /\ ret.value.level = "Safe"

(* C6: findEarthquakeZone examines every feature in order, passes over the *)
(* features without geometry, coordinates or PGA label, and returns zone   *)
(* and pga both equal to the PGA label of the first of the others that     *)
(* contains the point; it returns null if and only if none of them does.   *)
C6_FirstContainingZone ==
    call.op = "findEarthquakeZone" =>
        LET features == FeaturesOf(collection)
            matching == {i \in 1..Len(features) :
                            /\ features[i] # Null
                            /\ HasGeometry(features[i])
                            /\ HasPGA(features[i])
                            /\ Contains(features[i], call.point)}
        IN  /\ ~ret.threw
            /\ ret.value = Null <=> matching = {}
            /\ \A i \in matching :
                   (\A j \in matching : i <= j) =>
                       ret.value = [zone |-> features[i].properties.PGA,
                                    pga |-> features[i].properties.PGA]

CostRendered ==
    /\ call.op \in {"ConstructionCost", "ConstructionCostLegacy"}
    /\ ret.value # Null

(* The multiplier of a factor in the rendered cost; 1.0 for a factor the   *)
(* variant does not have.                                                  *)
FactorOf(cost, factor) == IF Has(cost, factor) THEN cost[factor] ELSE 100

(* C8: totalMultiplier is the product of the earthquake, flood, elevation  *)
(* and environmental multipliers, and the adjusted cost per unit area is   *)
(* the base cost times totalMultiplier, unrounded; base 2000 with          *)
(* multipliers 1.80, 1.0, 1.0, 1.0 gives 3600.                             *)
C8_TotalIsProductOfFour ==
    CostRendered =>
        LET cost == ret.value
            product == cost.earthquakeMultiplier * cost.floodMultiplier
                           * FactorOf(cost, "elevationMultiplier")
                           * FactorOf(cost, "environmentalMultiplier")
        IN  /\ cost.totalMultiplier = Rat(product, 100 * 100 * 100 * 100)
            /\ cost.adjustedCostPerSqft = RatMul(Whole(call.props.baseCost),
                                                 cost.totalMultiplier)
            /\ (/\ call.props.baseCost = 2000
                /\ cost.earthquakeMultiplier = 180
                /\ product = 180 * 100 * 100 * 100)
                   => cost.adjustedCostPerSqft = Whole(3600)

C8_Witness ==
    /\ call.op = "ConstructionCost"
    /\ ret.value # Null
    /\ ret.value.earthquakeMultiplier > 100
    /\ ret.value.floodMultiplier > 100
    /\ ret.value.elevationMultiplier > 100
    /\ ret.value.environmentalMultiplier > 100
    /\ RatLess(RatMul(Hundredths(ret.value.earthquakeMultiplier),
                      Hundredths(ret.value.floodMultiplier)),
               ret.value.totalMultiplier)

(* C9: earthquakeMultiplier is the catalog costMultiplier of the matched   *)
(* zone's label when a zone matched and its label is one of the five       *)
(* catalog entries, 1.0 when no zone matched or the label has no entry,    *)
(* and never below 1.0.                                                    *)
C9_EarthquakeMultiplier ==
    CostRendered =>
        LET zone == call.props.earthquakeZone
            multiplier == ret.value.earthquakeMultiplier
            catalog == {<<"Zone 1", 100>>, <<"Zone 2A", 115>>, <<"Zone 2B", 130>>,
                        <<"Zone 3", 150>>, <<"Zone 4", 180>>}
        IN  /\ multiplier >= 100
            /\ zone = Null => multiplier = 100
            /\ zone # Null =>
                   /\ \A entry \in catalog : zone.zone = entry[1] => multiplier = entry[2]
                   /\ (\A entry \in catalog : zone.zone # entry[1]) => multiplier = 100

C9_Witness ==
    /\ CostRendered
    /\ call.props.earthquakeZone # Null
    /\ call.props.earthquakeZone.zone = "constructor"
    /\ ret.value.earthquakeMultiplier = 100

(* C10: floodMultiplier is 1.30 for level "High Risk", 1.15 for level      *)
(* "Medium Risk" and 1.0 otherwise, for level "Safe" or without a          *)
(* FloodRisk.                                                              *)
C10_FloodMultiplier ==
    CostRendered =>
        LET floodRisk == call.props.floodRisk
            multiplier == ret.value.floodMultiplier
        IN  IF floodRisk = Null THEN multiplier = 100
            ELSE /\ floodRisk.level = "High Risk" => multiplier = 130
                 /\ floodRisk.level = "Medium Risk" => multiplier = 115
                 /\ floodRisk.level \notin {"High Risk", "Medium Risk"} => multiplier = 100

C10_Witness ==
    /\ CostRendered
    /\ call.props.floodRisk # Null
    /\ call.props.floodRisk.level = "Medium Risk"
    /\ ret.value.floodMultiplier = 115

(* C11: elevationMultiplier is 1.15 above 2000 m, else 1.10 above 1000 m,  *)
(* else 1.05 above 500 m, else 1.0; one tier applies, the thresholds are   *)
(* strict (2000 gives 1.10, 1000 gives 1.05, 500 gives 1.0) and an absent  *)
(* elevation gives 1.0.                                                    *)
C11_ElevationTiers ==
    (call.op = "ConstructionCost" /\ ret.value # Null) =>
        LET elevation == call.props.elevation
            multiplier == ret.value.elevationMultiplier
            tiers == {<<2000, 115>>, <<1000, 110>>, <<500, 105>>}
            above == {t \in tiers : elevation # Null /\ elevation.elevation > t[1]}
        IN  /\ above = {} => multiplier = 100
            /\ \A t \in above : (\A u \in above : u[1] <= t[1]) => multiplier = t[2]
            /\ (elevation # Null /\ elevation.elevation = 2000) => multiplier = 110
            /\ (elevation # Null /\ elevation.elevation = 1000) => multiplier = 105
            /\ (elevation # Null /\ elevation.elevation = 500) => multiplier = 100

C11_Witness ==
    /\ call.op = "ConstructionCost"
    /\ ret.value # Null
    /\ call.props.elevation # Null
    /\ call.props.elevation.elevation = 2000
    /\ ret.value.elevationMultiplier = 110

(* A render of the environmental part that fell back on the weather. *)
WeatherFallback ==
    /\ call.op = "environmentalMultiplier"
    /\ call.climate = Null
    /\ call.weather # Null

(* C12: environmentalMultiplier is getClimateCostMultiplier(climate) when  *)
(* a climate is present, whatever the weather; without a climate and with  *)
(* a weather snapshot it is 1.0 plus 0.03 (humidity > 80), 0.05            *)
(* (temperature > 40 or < 0), 0.04 (wind > 30) and 0.02 (humidity > 85 and *)
(* 15 < temperature < 35), each where it applies; without both it is 1.0.  *)
C12_EnvironmentalMultiplier ==
    call.op = "environmentalMultiplier" =>
        LET climate == call.climate
            weather == call.weather
            multiplier == ret.value.environmentalMultiplier
        IN  IF climate # Null THEN multiplier = getClimateCostMultiplier(climate)
            ELSE IF weather = Null THEN multiplier = 100
            ELSE multiplier = 100
                   + (IF weather.humidity > 80 THEN 3 ELSE 0)
                   + (IF weather.temperature > 40 \/ weather.temperature < 0 THEN 5 ELSE 0)
                   + (IF weather.windSpeed > 30 THEN 4 ELSE 0)
                   + (IF weather.humidity > 85 /\ weather.temperature > 15
                         /\ weather.temperature < 35 THEN 2 ELSE 0)

C12_Witness ==
    /\ WeatherFallback
    /\ call.weather.humidity > 85
    /\ call.weather.windSpeed > 30
    /\ ret.value.environmentalMultiplier = 109

(* C13 as stated: some weather snapshot receives the 0.02 term together    *)
(* with the 0.05 extreme-temperature term, and some snapshot receives it   *)
(* together with the 0.03 humidity term.                                   *)
C13_StacksWithTemperatureAndHumidity ==
    call.op = "environmentalMultiplier" =>
        /\ \E weather \in WeatherSnapshots :
               /\ WeatherTerms(weather).precipitation > 0
               /\ WeatherTerms(weather).temperature > 0
        /\ \E weather \in WeatherSnapshots :
               /\ WeatherTerms(weather).precipitation > 0
               /\ WeatherTerms(weather).humidity > 0

(* C13, amended: whenever the weather fallback adds the 0.02 term it also  *)
(* adds the 0.03 humidity term and does not add the 0.05 temperature term; *)
(* the multiplier is 1.0 plus the terms added.                             *)
C13_StacksWithHumidityOnly ==
    WeatherFallback =>
        LET terms == ret.value.weatherTerms
        IN  /\ terms.precipitation > 0 => (terms.humidity = 3 /\ terms.temperature = 0)
            /\ ret.value.weatherMultiplier =
                   100 + terms.humidity + terms.temperature + terms.wind + terms.precipitation

C13_Witness ==
    /\ WeatherFallback
    /\ ret.value.weatherTerms.precipitation = 2
    /\ ret.value.weatherTerms.humidity = 3
    /\ ret.value.weatherMultiplier >= 105

(* The contributions of the table of getClimateCostMultiplier. *)
TemperatureContribution(climate) ==
    IF climate.temperature2mMax > 40 THEN 8
    ELSE IF climate.temperature2mMax > 35 THEN 5
    ELSE IF climate.temperature2mMin < -10 THEN 8
    ELSE IF climate.temperature2mMin < 0 THEN 5
    ELSE 0

PrecipitationContribution(climate) ==
    IF climate.precipitationSum > 200 THEN 6
    ELSE IF climate.precipitationSum > 100 THEN 3
    ELSE 0

HumidityContribution(climate) ==
    IF climate.relativehumidity2mMean <= 0 THEN 0
    ELSE IF climate.relativehumidity2mMean > 80 THEN 4
    ELSE IF climate.relativehumidity2mMean > 70 THEN 2
    ELSE 0

WindContribution(climate) ==
    IF climate.windspeed10mMean > 25 THEN 5
    ELSE IF climate.windspeed10mMean > 15 THEN 2
    ELSE 0

(* C14: getClimateCostMultiplier(null) is 1.0; for a climate record the    *)
(* result is 1.0 plus the temperature, precipitation, humidity (when       *)
(* above 0) and wind contributions of the table, hence at least 1.0; max   *)
(* temperature 42, precipitation 250, humidity 85 and wind 30 give 1.23.   *)
C14_ClimateMultiplierTable ==
    call.op = "getClimateCostMultiplier" =>
        LET climate == call.climate
            multiplier == ret.value.multiplier
        IN  /\ multiplier >= 100
            /\ climate = Null => multiplier = 100
            /\ climate # Null =>
                   /\ multiplier = 100 + TemperatureContribution(climate)
                                       + PrecipitationContribution(climate)
                                       + HumidityContribution(climate)
                                       + WindContribution(climate)
                   /\ (/\ climate.temperature2mMax = 42
                       /\ climate.precipitationSum = 250
                       /\ climate.relativehumidity2mMean = 85
                       /\ climate.windspeed10mMean = 30) => multiplier = 123

C14_Witness ==
    /\ call.op = "getClimateCostMultiplier"
    /\ call.climate # Null
    /\ call.climate.temperature2mMax = 42
    /\ call.climate.precipitationSum = 250
    /\ call.climate.relativehumidity2mMean = 85
    /\ call.climate.windspeed10mMean = 30
    /\ ret.value.multiplier = 123

(* C15: at most one of the four temperature contributions is added (a      *)
(* record with max temperature above 35 receives no cold contribution,     *)
(* whatever its min temperature), and the precipitation, humidity and wind *)
(* contributions are added independently of the temperature branch and of  *)
(* each other.                                                             *)
C15_TemperatureExclusiveOthersIndependent ==
    (call.op = "getClimateCostMultiplier" /\ call.climate # Null) =>
        LET climate == call.climate
            mild == Climate(30, 5, 0, 0, 0)
            alone(other) == getClimateCostMultiplier(other) - 100
            temperature ==
                alone([mild EXCEPT !.temperature2mMax = climate.temperature2mMax,
                                   !.temperature2mMin = climate.temperature2mMin])
            precipitation ==
                alone([mild EXCEPT !.precipitationSum = climate.precipitationSum])
            humidity ==
                alone([mild EXCEPT !.relativehumidity2mMean = climate.relativehumidity2mMean])
            wind == alone([mild EXCEPT !.windspeed10mMean = climate.windspeed10mMean])
        IN  /\ ret.value.multiplier = 100 + temperature + precipitation + humidity + wind
            /\ temperature \in {0, 5, 8}
            /\ climate.temperature2mMax > 35 =>
                   temperature = alone([mild EXCEPT
                                           !.temperature2mMax = climate.temperature2mMax])

C15_Witness ==
    /\ call.op = "getClimateCostMultiplier"
    /\ call.climate # Null
    /\ call.climate.temperature2mMax > 35
    /\ call.climate.temperature2mMax <= 40
    /\ call.climate.temperature2mMin < -10
    /\ call.climate.precipitationSum > 200
    /\ call.climate.windspeed10mMean > 25
    /\ call.climate.relativehumidity2mMean = 0
    /\ ret.value.multiplier = 116

(* C16: classifyClimateZone returns one label for every mean temperature   *)
(* and precipitation: Polar below 0; Cold Desert or Cold from 0 to below   *)
(* 10 (threshold 50); Temperate Desert, Temperate Semi-Arid or Temperate   *)
(* from 10 to below 18 (thresholds 50, 200); Hot Desert, Hot Semi-Arid,    *)
(* Tropical Savanna or Tropical from 18 (thresholds 50, 200, 1000), where  *)
(* the label depends on the precipitation alone.                           *)
C16_ClimateZoneTable ==
    call.op = "classifyClimateZone" =>
        LET t == call.meanTemp
            p == call.precipitation
            label == ret.value.label
            hot == CASE p < 50 -> "Hot Desert"
                     [] p >= 50 /\ p < 200 -> "Hot Semi-Arid"
                     [] p >= 200 /\ p < 1000 -> "Tropical Savanna"
                     [] p >= 1000 -> "Tropical"
        IN  /\ t < 0 => label = "Polar"
            /\ (t >= 0 /\ t < 10) => label = (IF p < 50 THEN "Cold Desert" ELSE "Cold")
            /\ (t >= 10 /\ t < 18) =>
                   label = (CASE p < 50 -> "Temperate Desert"
                              [] p >= 50 /\ p < 200 -> "Temperate Semi-Arid"
                              [] p >= 200 -> "Temperate")
            /\ t >= 18 => label = hot
            /\ t >= 18 => \A other \in MeanTemps :
                              other >= 18 => classifyClimateZone(other, p) = label

C16_Witness ==
    /\ call.op = "classifyClimateZone"
    /\ call.meanTemp >= 25
    /\ call.precipitation >= 200
    /\ call.precipitation < 1000
    /\ ret.value.label = "Tropical Savanna"

(* C17: getZoneInfo returns the catalog entry for each of the labels       *)
(* Zone 1, Zone 2A, Zone 2B, Zone 3 and Zone 4, and null for every other   *)
(* string, the empty string, "constructor" and "toString" included.        *)
C17_LookupOverFiveEntries ==
    call.op = "getZoneInfo" =>
        IF call.zoneName \in {"Zone 1", "Zone 2A", "Zone 2B", "Zone 3", "Zone 4"}
           THEN /\ ret.value # Null
                /\ Has(ret.value, "costMultiplier")
                /\ Has(ret.value, "riskLevel")
           ELSE ret.value = Null

(* C18: the cost multipliers of the catalog are 1.00, 1.15, 1.30, 1.50 and *)
(* 1.80 for Zone 1, Zone 2A, Zone 2B, Zone 3 and Zone 4: strictly          *)
(* increasing in zone order and at least 1.0.                              *)
C18_MultipliersIncrease ==
    LET order == <<"Zone 1", "Zone 2A", "Zone 2B", "Zone 3", "Zone 4">>
        expected == <<100, 115, 130, 150, 180>>
    IN  \A i \in 1..Len(order) :
            (call.op = "getZoneInfo" /\ call.zoneName = order[i]) =>
                /\ ret.value.costMultiplier = expected[i]
                /\ ret.value.costMultiplier >= 100
                /\ \A j \in 1..(i - 1) :
                       getZoneInfo(order[j]).costMultiplier < ret.value.costMultiplier

C18_Witness ==
    /\ call.op = "getZoneInfo"
    /\ call.zoneName = "Zone 3"
    /\ ret.value.costMultiplier = 150

(* No part of the feature's boundary is nearer to the point than d. *)
NotNearerThan(feature, point, d) ==
    \A line \in BoundaryLines(feature) :
        \A k \in 1..(Len(line) - 1) :
            SegDist2(PointPos(point), line[k], line[k + 1]) >= d * d

(* d is the least boundary distance from the point over the first n        *)
(* features of the collection.                                             *)
NearestAmong(n, d) ==
    LET features == FeaturesOf(collection)
        first == 1..Min(n, Len(features))
    IN  /\ \E i \in first : IsBoundaryDistance(features[i], call.point, d)
        /\ \A i \in first : NotNearerThan(features[i], call.point, d)

(* The point of a checkFloodRisk call lies outside every feature of the    *)
(* collection and farther than bufferRadiusKm from each of them.           *)
FarFromEveryFeature ==
    /\ IsFloodCall
    /\ LET features == FeaturesOf(collection)
       IN  \A i \in 1..Len(features) :
               /\ features[i] # Null
               /\ ~Contains(features[i], call.point)
               /\ NotNearerThan(features[i], call.point, call.bufferRadiusKm + 1)

HasPolygonBoundary(feature) ==
    /\ feature # Null
    /\ HasGeometry(feature)
    /\ feature.geometry.type \in {"Polygon", "MultiPolygon"}
    /\ HasBoundaryDistance(feature)

(* C20: findNearestFloodPoint returns distance 999 and nearestPoint null   *)
(* for a null collection, a collection without features, an empty features *)
(* list and a list in which no feature has a usable polygon boundary.      *)
C20_NearestSentinelWhenUnusable ==
    (/\ call.op = "findNearestFloodPoint"
     /\ \A i \in 1..Len(FeaturesOf(collection)) :
            ~HasPolygonBoundary(FeaturesOf(collection)[i]))
        => /\ ~ret.threw
           /\ ret.value.distance = 999
           /\ ret.value.nearestPoint = Null

(* The factors of the breakdown with the multiplier each item comes from;  *)
(* the last item bears either of two names.                                *)
BreakdownFactors ==
    {<<"Earthquake Mitigation", "earthquakeMultiplier">>,
     <<"Flood Protection", "floodMultiplier">>,
     <<"Elevation Factors", "elevationMultiplier">>,
     <<"Climate Adaptation", "environmentalMultiplier">>,
     <<"Weather Adaptation", "environmentalMultiplier">>}

(* C21: each factor's item of the breakdown is the base cost times         *)
(* (multiplier - 1) for 1000 sqft, and the breakdown holds exactly the     *)
(* items of positive value: no item for a multiplier of 1.0, an item for   *)
(* every multiplier above 1.0.                                             *)
C21_BreakdownHoldsPositiveItems ==
    CostRendered =>
        LET cost == ret.value
            items == {cost.costBreakdown[k] : k \in 1..Len(cost.costBreakdown)}
            names == {item.name : item \in items}
            base == call.props.baseCost
        IN  /\ Cardinality(items) = Len(cost.costBreakdown)
            /\ Cardinality(names) = Cardinality(items)
            /\ \A item \in items :
                   /\ item.value.n > 0
                   /\ \/ item.name = "Base Construction" /\ item.value = Whole(base * 1000)
                      \/ \E f \in BreakdownFactors :
                             /\ item.name = f[1]
                             /\ Has(cost, f[2])
                             /\ cost[f[2]] > 100
                             /\ item.value = Rat(base * (cost[f[2]] - 100) * 10, 1)
            /\ "Base Construction" \in names
            /\ \A factor \in {f[2] : f \in BreakdownFactors} :
                   (Has(cost, factor) /\ cost[factor] > 100) =>
                       \E f \in BreakdownFactors : f[2] = factor /\ f[1] \in names

C21_Witness ==
    /\ call.op = "ConstructionCost"
    /\ ret.value # Null
    /\ ret.value.earthquakeMultiplier = 100
    /\ ret.value.floodMultiplier > 100
    /\ ret.value.elevationMultiplier = 100
    /\ ret.value.environmentalMultiplier > 100
    /\ Len(ret.value.costBreakdown) = 3

(* The sum of the values of the first k items of a breakdown. *)
RECURSIVE SumOfValues(_, _)
SumOfValues(items, k) ==
    IF k = 0 THEN Whole(0) ELSE RatAdd(SumOfValues(items, k - 1), items[k].value)

Severity(level) ==
    CASE level = "Safe" -> 0
      [] level = "Medium Risk" -> 1
      [] level = "High Risk" -> 2

(* C29: for a fixed point and collection and radii r1 <= r2 the level      *)
(* checkFloodRisk returns with r2 is at least as severe as the level it    *)
(* returns with r1, and inFloodExtent is the same for both.                *)
C29_MonotoneInBufferRadius ==
    FloodReturned =>
        \A r2 \in BufferRadii :
            call.bufferRadiusKm <= r2 =>
                LET other == checkFloodRisk(call.point, collection, r2)
                IN  /\ ~other.threw
                    /\ Severity(other.value.level) >= Severity(ret.value.level)
                    /\ other.value.inFloodExtent = ret.value.inFloodExtent

C29_Witness ==
    /\ FloodReturned
    /\ ret.value.level = "Safe"
    /\ ret.value.distance < Sentinel
    /\ \E r2 \in BufferRadii :
           /\ call.bufferRadiusKm < r2
           /\ checkFloodRisk(call.point, collection, r2).value.level = "Medium Risk"
           /\ checkFloodRisk(call.point, collection, r2).value.distance > ret.value.distance

(***************************************************************************)
(* The page (Home of src/app/page.tsx; src/unnamed/part_001 is the same    *)
(* component without the weather request and the assessment modal).        *)
(*                                                                         *)
(* page holds the component's state and what it has in flight: timers is   *)
(* the set of pending debounce timers, each with the location its closure  *)
(* captured, and requests the locations whose getElevation promise has not *)
(* settled.  A state update and the effects that depend on it are one      *)
(* step.  The weather request of the same effect is handled exactly as the *)
(* elevation request and is left out.  now is the clock in milliseconds.   *)
(***************************************************************************)
MaxNow == 1800

DebounceMs == 600

PageTicks == {300}

PageLocations == {p \in Points : p.lng \in {5, 13}}

(* /data/earthquake-zones.json *)
ZonesFile == [type |-> "FeatureCollection", features |-> <<FeatureA, FeatureB>>]

(* /data/Flood-extent.json: a well-formed file, and one with a null entry  *)
(* among its features.                                                     *)
FloodFiles ==
    {[type |-> "FeatureCollection", features |-> <<FeatureA>>],
     [type |-> "FeatureCollection", features |-> <<FeatureA, Null>>]}

(* getElevation(point) of src/lib/elevation.ts resolves to the first       *)
(* result of the service, or to null on any failure; it never rejects.     *)
ElevationData(point) ==
    [latitude |-> point.lat, longitude |-> point.lng, elevation |-> 100 * point.lng]

ElevationResponses(point) == {Null, ElevationData(point)}

(* The cleanup of the risk effect, with clearTimeout left out. *)
RiskEffectCleanupNoClear(pg) == [pg EXCEPT !.calculatingRisk = FALSE]

(* The cleanup the risk effect returned: clearTimeout(timeoutId),          *)
(* setCalculatingRisk(false).  The branch without a timer returns none.    *)
RiskEffectCleanup(pg) == [pg EXCEPT !.timers = {}, !.calculatingRisk = FALSE]

(* The risk effect, run on a change of selectedLocation, earthquakeZones   *)
(* or floodExtent: the previous cleanup, then the body.                    *)
RiskEffect(pg, t) ==
    LET cleaned == RiskEffectCleanup(pg)
    IN  IF pg.selectedLocation = Null \/ pg.earthquakeZones = Null \/ pg.floodExtent = Null
           THEN [cleaned EXCEPT !.floodRisk = Null, !.earthquakeZone = Null,
                                !.calculatingRisk = FALSE, !.elevation = Null,
                                !.changedAt = t]
           ELSE [cleaned EXCEPT !.calculatingRisk = TRUE,
                                !.timers = @ \cup {[location |-> pg.selectedLocation,
                                                    due |-> t + DebounceMs]},
                                !.changedAt = t]

(* The elevation effect, run on a change of selectedLocation. *)
ElevationEffect(pg) ==
    IF pg.selectedLocation = Null
       THEN [pg EXCEPT !.elevation = Null]
       ELSE [pg EXCEPT !.loadingElevation = TRUE,
                       !.requests = @ \cup {pg.selectedLocation}]

(* The callback of the debounce timer: both lookups, then both setters;    *)
(* an exception of either lookup skips both setters.                       *)
RiskTimeout(pg, location) ==
    LET flood == checkFloodRisk(location, pg.floodExtent, 5)
        eq    == findEarthquakeZone(location, pg.earthquakeZones)
        done  == [pg EXCEPT !.calculatingRisk = FALSE]
    IN  IF flood.threw \/ eq.threw
           THEN done
           ELSE [done EXCEPT !.floodRisk = flood.value, !.earthquakeZone = eq.value]

InitPage ==
    /\ collection \in FloodFiles
    /\ call = [op |-> "none"]
    /\ ret = Returned(Null)
    /\ page = [loading |-> TRUE, selectedLocation |-> Null,
               earthquakeZones |-> Null, floodExtent |-> Null,
               floodRisk |-> Null, earthquakeZone |-> Null,
               calculatingRisk |-> FALSE,
               elevation |-> Null, loadingElevation |-> FALSE,
               assessmentModalOpen |-> FALSE, assessmentModalData |-> Null,
               timers |-> {}, requests |-> {}, changedAt |-> 0]
    /\ cache = Null
    /\ view = Null
    /\ now = 0

(* loadData: setEarthquakeZones(eqData). *)
EarthquakeZonesParsed ==
    /\ page # Null /\ page.loading /\ page.earthquakeZones = Null
    /\ page' = RiskEffect([page EXCEPT !.earthquakeZones = ZonesFile], now)
    /\ UNCHANGED <<collection, call, ret, cache, view, now>>

(* loadData: setFloodExtent(floodData). *)
FloodExtentParsed ==
    /\ page # Null /\ page.loading
    /\ page.earthquakeZones # Null /\ page.floodExtent = Null
    /\ page' = RiskEffect([page EXCEPT !.floodExtent = collection], now)
    /\ UNCHANGED <<collection, call, ret, cache, view, now>>

(* loadData: setLoading(false); the map and the panel are rendered from    *)
(* here on.                                                                *)
LoadingDone ==
    /\ page # Null /\ page.loading /\ page.floodExtent # Null
    /\ page' = [page EXCEPT !.loading = FALSE]
    /\ UNCHANGED <<collection, call, ret, cache, view, now>>

(* handleLocationSelect / handleCurrentLocation: setSelectedLocation with  *)
(* a new point object, so both effects run even for the same coordinates.  *)
SelectLocation ==
    /\ page # Null /\ ~page.loading
    /\ \E p \in PageLocations :
          page' = ElevationEffect(RiskEffect([page EXCEPT !.selectedLocation = p], now))
    /\ UNCHANGED <<collection, call, ret, cache, view, now>>

(* A pending debounce timer fires at or after its due time.  call records  *)
(* the computation: the location of the closure, the selected location,    *)
(* and the times of the run and of the last change.                        *)
RiskTimerFires ==
    /\ page # Null
    /\ \E t \in page.timers :
          /\ now >= t.due
          /\ page' = RiskTimeout([page EXCEPT !.timers = @ \ {t}], t.location)
          /\ call' = [op |-> "riskTimeout", location |-> t.location,
                      selectedLocation |-> page.selectedLocation,
                      at |-> now, changedAt |-> page.changedAt]
    /\ UNCHANGED <<collection, ret, cache, view, now>>

(* A getElevation promise settles: setElevation(elevationData),            *)
(* setLoadingElevation(false).                                             *)
ElevationResolves ==
    /\ page # Null
    /\ \E p \in page.requests : \E data \in ElevationResponses(p) :
          page' = [page EXCEPT !.requests = @ \ {p}, !.elevation = data,
                               !.loadingElevation = FALSE]
    /\ UNCHANGED <<collection, call, ret, cache, view, now>>

(* The 'View Full Site Assessment' button, rendered when a location is     *)
(* selected.                                                               *)
OpenAssessment ==
    /\ page # Null /\ ~page.loading /\ page.selectedLocation # Null
    /\ page' = [page EXCEPT !.assessmentModalOpen = TRUE,
                            !.assessmentModalData =
                                [location |-> page.selectedLocation, address |-> Null,
                                 floodRisk |-> page.floodRisk,
                                 earthquakeZone |-> page.earthquakeZone,
                                 elevation |-> page.elevation]]
    /\ UNCHANGED <<collection, call, ret, cache, view, now>>

(* onClose of the modal. *)
CloseAssessment ==
    /\ page # Null /\ page.assessmentModalData # Null
    /\ page' = [page EXCEPT !.assessmentModalOpen = FALSE, !.assessmentModalData = Null]
    /\ UNCHANGED <<collection, call, ret, cache, view, now>>

PageTick ==
    /\ page # Null
    /\ \E d \in PageTicks : now + d <= MaxNow /\ now' = now + d
    /\ UNCHANGED <<collection, call, ret, page, cache, view>>

NextPage ==
    \/ EarthquakeZonesParsed
    \/ FloodExtentParsed
    \/ LoadingDone
    \/ SelectLocation
    \/ RiskTimerFires
    \/ ElevationResolves
    \/ OpenAssessment
    \/ CloseAssessment
    \/ PageTick

SpecPage == InitPage /\ [][NextPage]_vars

(***************************************************************************)
(* Claims about the page.                                                  *)
(***************************************************************************)
DatasetsLoaded == page.earthquakeZones # Null /\ page.floodExtent # Null

(* C22: risk re-evaluation is debounced.  At most one computation is       *)
(* pending; a pending computation is the one scheduled at the last change  *)
(* of the location or the datasets, for the selected location; and a       *)
(* computation that ran did so 600 ms or more after the last change, for   *)
(* the location selected at that moment.                                   *)
C22_DebouncedRiskEvaluation ==
    page # Null =>
       /\ Cardinality(page.timers) <= 1
       /\ \A t \in page.timers :
             /\ DatasetsLoaded
             /\ t.location = page.selectedLocation
             /\ t.due = page.changedAt + DebounceMs
       /\ call.op = "riskTimeout" =>
             /\ call.location = call.selectedLocation
             /\ call.at - call.changedAt >= DebounceMs

(* A computation ran for one location, and after a later selection of      *)
(* another location the next one is pending.                               *)
C22_Witness ==
    /\ page # Null
    /\ call.op = "riskTimeout"
    /\ page.timers # {}
    /\ page.selectedLocation # call.location
    /\ now < page.changedAt + DebounceMs

(* C25: once no elevation request is outstanding, the elevation state is   *)
(* the result of the request for the selected location.                    *)
C25_ElevationOfCurrentLocation ==
    (page # Null /\ page.selectedLocation # Null /\ page.requests = {}
        /\ page.elevation # Null)
       => /\ page.elevation.latitude = page.selectedLocation.lat
          /\ page.elevation.longitude = page.selectedLocation.lng

(* C26: the floodRisk and earthquakeZone of assessmentModalData are the    *)
(* results of the two lookups for assessmentModalData.location.            *)
C26_ModalResultsOfModalLocation ==
    (page # Null /\ page.assessmentModalData # Null) =>
       LET data  == page.assessmentModalData
           flood == checkFloodRisk(data.location, page.floodExtent, 5)
           eq    == findEarthquakeZone(data.location, page.earthquakeZones)
       IN  (~flood.threw /\ ~eq.threw) =>
              /\ data.floodRisk = flood.value
              /\ data.earthquakeZone = eq.value

(* C27: with a location selected, both datasets loaded and calculatingRisk *)
(* false, floodRisk and earthquakeZone are null or the results of the      *)
(* lookups for the selected location.                                      *)
C27_ResultsOfCurrentLocation ==
    (page # Null /\ page.selectedLocation # Null /\ DatasetsLoaded
        /\ ~page.calculatingRisk) =>
       LET flood == checkFloodRisk(page.selectedLocation, page.floodExtent, 5)
           eq    == findEarthquakeZone(page.selectedLocation, page.earthquakeZones)
       IN  /\ page.floodRisk = Null
              \/ (~flood.threw /\ page.floodRisk = flood.value)
           /\ page.earthquakeZone = Null
              \/ (~eq.threw /\ page.earthquakeZone = eq.value)

(***************************************************************************)
(* reverseGeocode and its cache (the geocoding half of                     *)
(* src/lib/elevation.ts).                                                  *)
(*                                                                         *)
(* Here a coordinate is an integer number of 0.00001 degrees.  cache holds *)
(* geocodeCache, a map from keys to entries (Null where the Map has none), *)
(* and lookups, the calls that are waiting for a provider.  The two        *)
(* callers are the components that call reverseGeocode for the selected    *)
(* location; each has at most one call waiting.  An entry also records     *)
(* storedAt, the time of the set call, which the code does not keep.       *)
(***************************************************************************)
CACHE_DURATION == 300000

NullCacheDuration == 60000

(* The instants at which something happens, in milliseconds. *)
GeocodeInstants == {0, 30000, 60000, 300000}

GeocodePoints ==
    {[lat |-> 3037531, lng |-> 6934512], [lat |-> 3037534, lng |-> 6934508],
     [lat |-> 3037536, lng |-> 6934512]}

Callers == {"RiskAssessment", "MapView"}

Providers == <<"Photon", "BigDataCloud", "Nominatim">>

(* Number.prototype.toFixed(4): the sign, then the magnitude rounded to    *)
(* four decimals (no modelled coordinate lies half-way).                   *)
toFixed4(x) == [negative |-> x < 0, digits |-> (Abs(x) + 5) \div 10]

getCacheKey(point) == [lat |-> toFixed4(point.lat), lng |-> toFixed4(point.lng)]

GeocodeKeys == {getCacheKey(p) : p \in GeocodePoints}

(* What a provider answers for a point: an address, or null (no result,    *)
(* an HTTP error, the 3 s timeout).                                        *)
ProviderAddress(provider, point) == [provider |-> provider, lat |-> point.lat, lng |-> point.lng]

(* The test of a cached entry, with <= for <. *)
CacheFreshInclusive(cached, t) == cached # Null /\ t - cached.timestamp <= CACHE_DURATION

(* cached && Date.now() - cached.timestamp < CACHE_DURATION *)
CacheFresh(cached, t) == cached # Null /\ t - cached.timestamp < CACHE_DURATION

(* The null entry, stamped with the time of the set call. *)
NullEntryStampedNow(t) == [address |-> Null, timestamp |-> t, storedAt |-> t]

(* The entry set when no provider answered: back-dated so that one minute  *)
(* of its five is left.                                                    *)
NullEntryStamped(t) ==
    [address |-> Null, timestamp |-> t - (CACHE_DURATION - NullCacheDuration), storedAt |-> t]

AddressEntryStamped(address, t) == [address |-> address, timestamp |-> t, storedAt |-> t]

(* What call keeps of a lookup that returned. *)
LookupOf(l) ==
    [op |-> l.op, point |-> l.point, cacheKey |-> l.cacheKey, at |-> l.at,
     cached |-> l.cached, responses |-> l.responses]

InitGeocode ==
    /\ collection = Null
    /\ call = [op |-> "none"]
    /\ ret = Returned(Null)
    /\ page = Null
    /\ cache = [geocodeCache |-> [k \in GeocodeKeys |-> Null], lookups |-> {}]
    /\ view = Null
    /\ now = 0

(* reverseGeocode(point) up to its first await: a fresh entry is returned; *)
(* otherwise the call waits for Photon.                                    *)
ReverseGeocodeCalled ==
    /\ cache # Null
    /\ \E caller \in Callers, point \in GeocodePoints :
          /\ \A l \in cache.lookups : l.caller # caller
          /\ LET cacheKey == getCacheKey(point)
                 cached   == cache.geocodeCache[cacheKey]
                 this     == [op |-> "reverseGeocode", caller |-> caller, point |-> point,
                              cacheKey |-> cacheKey, at |-> now, cached |-> cached,
                              responses |-> <<>>]
             IN  IF CacheFresh(cached, now)
                    THEN /\ call' = LookupOf(this)
                         /\ ret' = Returned(cached.address)
                         /\ UNCHANGED cache
                    ELSE /\ cache' = [cache EXCEPT !.lookups = @ \cup {this}]
                         /\ UNCHANGED <<call, ret>>
    /\ UNCHANGED <<collection, page, view, now>>

(* The provider a waiting call awaits answers.  A non-null address is      *)
(* stored and returned; after the third null the null entry is stored and  *)
(* null returned; otherwise the call goes on to the next provider.         *)
ProviderResponds ==
    /\ cache # Null
    /\ \E l \in cache.lookups :
          LET provider == Providers[Len(l.responses) + 1]
          IN  \E address \in {Null, ProviderAddress(provider, l.point)} :
                 LET this == [l EXCEPT !.responses = Append(@, address)]
                 IN  IF address # Null
                        THEN /\ cache' = [cache EXCEPT
                                            !.geocodeCache[l.cacheKey] = AddressEntryStamped(address, now),
                                            !.lookups = @ \ {l}]
                             /\ call' = LookupOf(this)
                             /\ ret' = Returned(address)
                     ELSE IF Len(this.responses) = Len(Providers)
                        THEN /\ cache' = [cache EXCEPT
                                            !.geocodeCache[l.cacheKey] = NullEntryStamped(now),
                                            !.lookups = @ \ {l}]
                             /\ call' = LookupOf(this)
                             /\ ret' = Returned(Null)
                     ELSE /\ cache' = [cache EXCEPT !.lookups = (@ \ {l}) \cup {this}]
                          /\ UNCHANGED <<call, ret>>
    /\ UNCHANGED <<collection, page, view, now>>

GeocodeTick ==
    /\ cache # Null
    /\ \E t \in GeocodeInstants :
          /\ t > now
          /\ \A u \in GeocodeInstants : u > now => t <= u
          /\ now' = t
    /\ UNCHANGED <<collection, call, ret, page, cache, view>>

NextGeocode == ReverseGeocodeCalled \/ ProviderResponds \/ GeocodeTick

SpecGeocode == InitGeocode /\ [][NextGeocode]_vars

(***************************************************************************)
(* Claims about reverseGeocode.  call is the last call that returned, with *)
(* the entry it found under its key, and ret what it returned.             *)
(***************************************************************************)
LookupReturned == cache # Null /\ call.op = "reverseGeocode"

(* The age, at the call, of the entry the call found. *)
AgeOfCached == call.at - call.cached.storedAt

(* The providers were asked in order, each after the one before it had no  *)
(* address, and the first address received is the result.                  *)
QueriedInOrder ==
    /\ Len(call.responses) \in 1..Len(Providers)
    /\ \A i \in 1..Len(call.responses) :
          \/ call.responses[i] = Null
          \/ /\ call.responses[i] = ProviderAddress(Providers[i], call.point)
             /\ i = Len(call.responses)
    /\ ret.value = call.responses[Len(call.responses)]
    /\ ret.value = Null => Len(call.responses) = Len(Providers)

(* C23: a lookup that finds, under its rounded key, an address stored less *)
(* than five minutes earlier returns it without asking a provider; an      *)
(* address stored five minutes earlier or more is ignored and the          *)
(* providers are asked in order; an address received is stored under the   *)
(* key at the time of its receipt.                                         *)
C23_ReadThroughCache ==
    /\ [](LookupReturned /\ call.cached # Null /\ call.cached.address # Null
            => IF AgeOfCached < CACHE_DURATION
                  THEN ret.value = call.cached.address /\ call.responses = <<>>
                  ELSE QueriedInOrder)
    /\ [][(cache # Null /\ cache'.lookups # cache.lookups
              /\ cache'.lookups \subseteq cache.lookups /\ ret'.value # Null)
            => cache'.geocodeCache[call'.cacheKey]
                  = [address |-> ret'.value, timestamp |-> now, storedAt |-> now]]_vars

(* A lookup was served the address stored for another point of the same    *)
(* key.                                                                    *)
C23_Witness ==
    /\ LookupReturned
    /\ call.cached # Null /\ call.cached.address # Null
    /\ call.responses = <<>>
    /\ call.cached.address.lat # call.point.lat
    /\ AgeOfCached > 0

(* C24: a lookup that finds, under its key, the null entry of a lookup     *)
(* that no provider answered returns null without asking a provider when   *)
(* the entry was stored less than one minute earlier, and asks the         *)
(* providers again when it was stored one minute earlier or more.          *)
C24_NullCachedForOneMinute ==
    (LookupReturned /\ call.cached # Null /\ call.cached.address = Null)
       => IF AgeOfCached < NullCacheDuration
             THEN ret.value = Null /\ call.responses = <<>>
             ELSE QueriedInOrder

(* A lookup was answered null from the cache. *)
C24_Witness ==
    /\ LookupReturned
    /\ call.cached # Null /\ call.cached.address = Null
    /\ call.responses = <<>>
    /\ AgeOfCached > 0

(***************************************************************************)
(* The address effect of RiskAssessment and MapView (the same code in both *)
(* components).  view maps a component to its location prop, its address   *)
(* and loadingAddress state and the closures of the runs of its effect     *)
(* that still have a promise or a timer pending: the location of the run,  *)
(* its cancelled flag, the due time of its timer (none once cleared or     *)
(* fired) and whether its reverseGeocode promise is pending.               *)
(* reverseGeocode never rejects, so the catch callback is left out.        *)
(***************************************************************************)
MaxAddressNow == 12000

LoadingTimeoutMs == 6000

AddressTicks == {3000}

Components == {"RiskAssessment", "MapView"}

AddressFor(location) == [address |-> "of", lat |-> location.lat, lng |-> location.lng]

(* The cleanup of the address effect, without cancelled = true. *)
AddressCleanupNoCancel(closures) ==
    {[c EXCEPT !.timer = {}] : c \in closures}

(* The cleanup of the address effect: cancelled = true,                    *)
(* clearTimeout(timeoutId).                                                *)
AddressCleanup(closures) ==
    {[c EXCEPT !.cancelled = TRUE, !.timer = {}] : c \in closures}

(* Closures with nothing pending can no longer act. *)
Pending(closures) == {c \in closures : c.timer # {} \/ c.promise}

(* The address effect, run on a change of the location prop. *)
AddressEffect(v, location, t) ==
    [location |-> location, address |-> Null, loadingAddress |-> TRUE,
     closures |-> Pending(AddressCleanup(v.closures))
                     \cup {[location |-> location, cancelled |-> FALSE,
                            timer |-> {t + LoadingTimeoutMs}, promise |-> TRUE]}]

InitAddress ==
    /\ collection = Null
    /\ call = [op |-> "none"]
    /\ ret = Returned(Null)
    /\ page = Null
    /\ cache = Null
    /\ view = [c \in Components |->
                 [location |-> Null, address |-> Null, loadingAddress |-> FALSE,
                  closures |-> {}]]
    /\ now = 0

(* The page passes a newly selected location to both components. *)
LocationChanges ==
    /\ view # Null
    /\ \E p \in PageLocations :
          view' = [c \in Components |-> AddressEffect(view[c], p, now)]
    /\ UNCHANGED <<collection, call, ret, page, cache, now>>

(* The reverseGeocode promise of a run settles.  call records the run, the *)
(* location of the component at that moment and whether the component's    *)
(* state changed.                                                          *)
GeocodeResolves ==
    /\ view # Null
    /\ \E c \in Components : \E cl \in view[c].closures :
          \E addr \in {Null, AddressFor(cl.location)} :
             /\ cl.promise
             /\ LET settled == IF cl.cancelled THEN [cl EXCEPT !.promise = FALSE]
                               ELSE [cl EXCEPT !.promise = FALSE, !.timer = {}]
                    rest == Pending((view[c].closures \ {cl}) \cup {settled})
                    after == IF cl.cancelled
                                THEN [view[c] EXCEPT !.closures = rest]
                                ELSE [view[c] EXCEPT !.closures = rest, !.address = addr,
                                                     !.loadingAddress = FALSE]
                IN  /\ view' = [view EXCEPT ![c] = after]
                    /\ call' = [op |-> "then", component |-> c, location |-> cl.location,
                                current |-> view[c].location,
                                changed |-> after.address # view[c].address
                                            \/ after.loadingAddress # view[c].loadingAddress]
    /\ UNCHANGED <<collection, ret, page, cache, now>>

(* The 6 s timer of a run fires. *)
LoadingTimeout ==
    /\ view # Null
    /\ \E c \in Components : \E cl \in view[c].closures :
          /\ cl.timer # {}
          /\ \A due \in cl.timer : now >= due
          /\ LET fired == [cl EXCEPT !.timer = {}]
                 rest == Pending((view[c].closures \ {cl}) \cup {fired})
                 after == IF cl.cancelled
                             THEN [view[c] EXCEPT !.closures = rest]
                             ELSE [view[c] EXCEPT !.closures = rest, !.loadingAddress = FALSE]
             IN  /\ view' = [view EXCEPT ![c] = after]
                 /\ call' = [op |-> "timeout", component |-> c, location |-> cl.location,
                             current |-> view[c].location,
                             changed |-> after.loadingAddress # view[c].loadingAddress]
    /\ UNCHANGED <<collection, ret, page, cache, now>>

AddressTick ==
    /\ view # Null
    /\ \E d \in AddressTicks : now + d <= MaxAddressNow /\ now' = now + d
    /\ UNCHANGED <<collection, call, ret, page, cache, view>>

NextAddress == LocationChanges \/ GeocodeResolves \/ LoadingTimeout \/ AddressTick

SpecAddress == InitAddress /\ [][NextAddress]_vars

(* C28: in both components the address is null or the address returned for *)
(* the current location, and a response or a loading timeout of a run for  *)
(* a superseded location changes neither address nor loadingAddress.       *)
C28_NoStaleAddress ==
    view # Null =>
       /\ \A c \in Components :
             view[c].location # Null =>
                \/ view[c].address = Null
                \/ view[c].address = AddressFor(view[c].location)
       /\ (call.op \in {"then", "timeout"} /\ call.location # call.current)
             => ~call.changed

(* The response of a run for a superseded location arrived after the       *)
(* response for the current location had set the address.                  *)
C28_Witness ==
    /\ view # Null
    /\ call.op = "then"
    /\ call.location # call.current
    /\ view[call.component].location = call.current
    /\ view[call.component].address # Null

====
